---- MODULE Spec2Model ----
(***************************************************************************)
(* A model of client/X11/xf_rail.c (FreeRDP, X11 RAIL): the window         *)
(* registry and the window-order handler, the icon cache, the local        *)
(* move/resize handshake and the repaint of a dirty rectangle.             *)
(*                                                                         *)
(* Pointers are handles into `heap`; a freed object that is still          *)
(* referenced stays in `heap` with freed = TRUE, so that a later use of    *)
(* the dangling pointer can read the stale bytes, find the address handed  *)
(* out again by calloc, or crash.                                          *)
(***************************************************************************)
EXTENDS Integers, Sequences, FiniteSets, TLC

VARIABLES
    railWindows,    \* xfc->railWindows: NullPtr or the hash table's entries (handles)
    heap,           \* the xfAppWindow objects, by address
    railIconCache,  \* xfc->railIconCache: NullCache or the cache
    ret,            \* what the last handler returned
    effects,        \* the calls the last handler made on its collaborators, in order
    lastOp,         \* the last handler run and its arguments
    crashed,        \* the process died (assertion, use of freed memory)
    nOps,           \* handlers run so far
    repeats,        \* how many times in a row the last handler ran, same call, same result
    remote_app      \* xfc->remote_app: the client shows remote windows, not a desktop

vars == <<railWindows, heap, railIconCache, ret, effects, lastOp, crashed, nOps, repeats,
          remote_app>>

(***************************************************************************)
(* Bounds of the model.                                                    *)
(***************************************************************************)
MaxOps == 3
MaxHandles == 3

Handles == 1..MaxHandles

(***************************************************************************)
(* Program constants.                                                      *)
(***************************************************************************)
WINDOW_SHOW_MINIMIZED == 2
WINDOW_SHOW_MAXIMIZED == 3
ScratchCacheId == 255

\* The bits of WINDOW_ORDER_INFO.fieldFlags that xf_rail_window_common reads.
STATE_NEW == "WINDOW_ORDER_STATE_NEW"

NewBit(new) == IF new THEN {STATE_NEW} ELSE {}

FieldBits ==
    { "WND_OFFSET", "WND_SIZE", "RESIZE_MARGIN_X", "RESIZE_MARGIN_Y", "OWNER",
      "STYLE", "SHOW", "TITLE", "CLIENT_AREA_OFFSET", "CLIENT_AREA_SIZE",
      "WND_CLIENT_DELTA", "WND_RECTS", "VIS_OFFSET", "VISIBILITY" }

\* The bits whose presence makes position_or_size_updated TRUE.
GeometryBits ==
    { "WND_OFFSET", "WND_SIZE", "CLIENT_AREA_OFFSET", "CLIENT_AREA_SIZE",
      "WND_CLIENT_DELTA", "VIS_OFFSET", "VISIBILITY" }

(***************************************************************************)
(* Pointers to buffers (a title, a rectangle array): NULL or the contents. *)
(***************************************************************************)
NullPtr == [null |-> TRUE, data |-> <<>>]
Ptr(d) == [null |-> FALSE, data |-> d]

Rect(l, t, r, b) == [left |-> l, top |-> t, right |-> r, bottom |-> b]

\* "RdpRailWindow", the bytes of the default title.
DefaultTitle == <<82, 100, 112, 82, 97, 105, 108, 87, 105, 110, 100, 111, 119>>

\* calloc(1, sizeof(xfAppWindow)): every field zero.
ZeroWindow ==
    [ freed |-> FALSE, windowId |-> 0, surfaceId |-> <<0, 0>>,
      x |-> 0, y |-> 0, width |-> 0, height |-> 0,
      windowOffsetX |-> 0, windowOffsetY |-> 0,
      windowWidth |-> 0, windowHeight |-> 0,
      resizeMarginLeft |-> 0, resizeMarginRight |-> 0,
      resizeMarginTop |-> 0, resizeMarginBottom |-> 0,
      ownerWindowId |-> 0, dwStyle |-> 0, dwExStyle |-> 0,
      showState |-> 0, rail_state |-> 0, title |-> NullPtr,
      clientOffsetX |-> 0, clientOffsetY |-> 0,
      clientAreaWidth |-> 0, clientAreaHeight |-> 0,
      windowClientDeltaX |-> 0, windowClientDeltaY |-> 0,
      numWindowRects |-> 0, windowRects |-> NullPtr,
      visibleOffsetX |-> 0, visibleOffsetY |-> 0,
      numVisibilityRects |-> 0, visibilityRects |-> NullPtr,
      is_mapped |-> FALSE,
      local_move |-> [state |-> "LMS_NOT_ACTIVE", direction |-> "NONE"] ]

(***************************************************************************)
(* Calls on the collaborators (the X11 window layer, the RAIL channel),    *)
(* recorded in the order the handler makes them.                           *)
(***************************************************************************)
Effect(op, h, args, rects, text) ==
    [op |-> op, win |-> h, args |-> args, rects |-> rects, text |-> text]

(***************************************************************************)
(* The registry: xfc->railWindows, a hash table from windowId to the       *)
(* xfAppWindow.  Its key is a pointer to the object's own windowId field   *)
(* (line 1254), so a lookup reads the key through the object.              *)
(***************************************************************************)
NULL == 0

Entries == IF railWindows.null THEN <<>> ELSE railWindows.data

\* The handles the table holds, each once.
Registered == {Entries[i] : i \in 1..Len(Entries)}

\* The entries whose key equals id.
Matches(id) == {i \in 1..Len(Entries) : heap[Entries[i]].windowId = id}

\* xf_rail_get_window giving the first window of the table when none has
\* the key id.
xf_rail_get_window_AnyWindow(id) ==
    IF railWindows.null \/ Entries = <<>>
    THEN {NULL}
    ELSE IF Matches(id) = {}
    THEN {Entries[1]}
    ELSE {Entries[i] : i \in Matches(id)}

\* xf_rail_get_window: NULL without a table, else the value stored under id.
xf_rail_get_window(id) ==
    IF railWindows.null \/ Matches(id) = {}
    THEN {NULL}
    ELSE {Entries[i] : i \in Matches(id)}

\* The addresses calloc may return: memory never handed out (one address
\* stands for all of them) or memory that was freed, referenced or not.
FreshHandles == Handles \ DOMAIN heap

CallocChoices ==
    (IF FreshHandles = {} THEN {}
     ELSE {CHOOSE h \in FreshHandles : \A g \in FreshHandles : h <= g})
    \cup {h \in DOMAIN heap : heap[h].freed}

\* The heap without the objects that are freed and no longer referenced.
Collect(hp, keep) ==
    [h \in {g \in DOMAIN hp : ~hp[g].freed \/ g \in keep} |-> hp[h]]

RemoveAt(s, i) == SubSeq(s, 1, i - 1) \o SubSeq(s, i + 1, Len(s))

(***************************************************************************)
(* ConvertWCharNToUtf8Alloc: n UTF-16 code units to UTF-8 bytes; NULL when *)
(* a code unit cannot be converted (a surrogate without its pair).         *)
(***************************************************************************)
IsSurrogate(u) == u >= 55296 /\ u <= 57343

Utf8OfUnit(u) ==
    IF u < 128 THEN <<u>>
    ELSE IF u < 2048 THEN <<192 + (u \div 64), 128 + (u % 64)>>
    ELSE <<224 + (u \div 4096), 128 + ((u \div 64) % 64), 128 + (u % 64)>>

RECURSIVE Utf8OfUnits(_)
Utf8OfUnits(units) ==
    IF units = <<>> THEN <<>>
    ELSE Utf8OfUnit(Head(units)) \o Utf8OfUnits(Tail(units))

ConvertWCharNToUtf8Alloc(units, n) ==
    LET taken == SubSeq(units, 1, n)
    IN  IF \E i \in 1..n : IsSurrogate(taken[i])
        THEN NullPtr
        ELSE Ptr(Utf8OfUnits(taken))

\* OrderTitle giving the default title for a zero length.
OrderTitle_Placeholder(ws, oom) ==
    IF ws.titleInfo.length = 0
    THEN (IF oom THEN NullPtr ELSE Ptr(DefaultTitle))
    ELSE IF oom THEN NullPtr
         ELSE ConvertWCharNToUtf8Alloc(ws.titleInfo.string, ws.titleInfo.length \div 2)

\* The title an order carries (lines 361-375 and 461-475): the empty string
\* for a zero length, else the converted string; NULL when the duplication
\* or the conversion fails.
OrderTitle(ws, oom) ==
    IF ws.titleInfo.length = 0
    THEN (IF oom THEN NullPtr ELSE Ptr(<<>>))
    ELSE IF oom THEN NullPtr
         ELSE ConvertWCharNToUtf8Alloc(ws.titleInfo.string, ws.titleInfo.length \div 2)

(***************************************************************************)
(* xf_rail_window_common, "Update Parameters" (lines 409-549): one         *)
(* operator per test of fieldFlags, in the order of the code.  w is the    *)
(* xfAppWindow, ws the WINDOW_STATE_ORDER of the order.                    *)
(***************************************************************************)
CopyWndOffset(w, flags, ws) ==
    IF "WND_OFFSET" \in flags
    THEN [w EXCEPT !.windowOffsetX = ws.windowOffsetX,
                   !.windowOffsetY = ws.windowOffsetY]
    ELSE w

\* CopyWndSize without its test of fieldFlags.
CopyWndSize_Unmasked(w, flags, ws) ==
    [w EXCEPT !.windowWidth = ws.windowWidth,
              !.windowHeight = ws.windowHeight]

CopyWndSize(w, flags, ws) ==
    IF "WND_SIZE" \in flags
    THEN [w EXCEPT !.windowWidth = ws.windowWidth,
                   !.windowHeight = ws.windowHeight]
    ELSE w

CopyResizeMarginX(w, flags, ws) ==
    IF "RESIZE_MARGIN_X" \in flags
    THEN [w EXCEPT !.resizeMarginLeft = ws.resizeMarginLeft,
                   !.resizeMarginRight = ws.resizeMarginRight]
    ELSE w

CopyResizeMarginY(w, flags, ws) ==
    IF "RESIZE_MARGIN_Y" \in flags
    THEN [w EXCEPT !.resizeMarginTop = ws.resizeMarginTop,
                   !.resizeMarginBottom = ws.resizeMarginBottom]
    ELSE w

CopyOwner(w, flags, ws) ==
    IF "OWNER" \in flags
    THEN [w EXCEPT !.ownerWindowId = ws.ownerWindowId]
    ELSE w

CopyStyle(w, flags, ws) ==
    IF "STYLE" \in flags
    THEN [w EXCEPT !.dwStyle = ws.style, !.dwExStyle = ws.extendedStyle]
    ELSE w

CopyShow(w, flags, ws) ==
    IF "SHOW" \in flags
    THEN [w EXCEPT !.showState = ws.showState]
    ELSE w

\* CopyTitle releasing the old title before the new one is known to exist.
CopyTitle_FreesFirst(w, flags, ws, fail) ==
    IF "TITLE" \in flags
    THEN LET title == OrderTitle(ws, fail = "title")
         IN  IF title.null
             THEN [w |-> [w EXCEPT !.title = NullPtr], ok |-> FALSE]
             ELSE [w |-> [w EXCEPT !.title = title], ok |-> TRUE]
    ELSE [w |-> w, ok |-> TRUE]

\* Lines 452-479: [w, ok]; ok = FALSE is the early "return FALSE".
CopyTitle(w, flags, ws, fail) ==
    IF "TITLE" \in flags
    THEN LET title == OrderTitle(ws, fail = "title")
         IN  IF title.null
             THEN [w |-> w, ok |-> FALSE]
             ELSE [w |-> [w EXCEPT !.title = title], ok |-> TRUE]
    ELSE [w |-> w, ok |-> TRUE]

CopyClientAreaOffset(w, flags, ws) ==
    IF "CLIENT_AREA_OFFSET" \in flags
    THEN [w EXCEPT !.clientOffsetX = ws.clientOffsetX,
                   !.clientOffsetY = ws.clientOffsetY]
    ELSE w

CopyClientAreaSize(w, flags, ws) ==
    IF "CLIENT_AREA_SIZE" \in flags
    THEN [w EXCEPT !.clientAreaWidth = ws.clientAreaWidth,
                   !.clientAreaHeight = ws.clientAreaHeight]
    ELSE w

CopyWndClientDelta(w, flags, ws) ==
    IF "WND_CLIENT_DELTA" \in flags
    THEN [w EXCEPT !.windowClientDeltaX = ws.windowClientDeltaX,
                   !.windowClientDeltaY = ws.windowClientDeltaY]
    ELSE w

\* calloc(n, sizeof(RECTANGLE_16)) followed by CopyMemory of n rectangles.
CopyRects(src, n) == Ptr(SubSeq(src, 1, n))

\* Lines 499-520: the old array is freed, the count is stored, and a
\* non-zero count allocates; [w, ok].
CopyWndRects(w, flags, ws, fail) ==
    IF "WND_RECTS" \in flags
    THEN LET w1 == [w EXCEPT !.windowRects = NullPtr,
                             !.numWindowRects = ws.numWindowRects]
         IN  IF w1.numWindowRects # 0
             THEN IF fail = "windowRects"
                  THEN [w |-> w1, ok |-> FALSE]
                  ELSE [w |-> [w1 EXCEPT !.windowRects =
                                   CopyRects(ws.windowRects, w1.numWindowRects)],
                        ok |-> TRUE]
             ELSE [w |-> w1, ok |-> TRUE]
    ELSE [w |-> w, ok |-> TRUE]

CopyVisOffset(w, flags, ws) ==
    IF "VIS_OFFSET" \in flags
    THEN [w EXCEPT !.visibleOffsetX = ws.visibleOffsetX,
                   !.visibleOffsetY = ws.visibleOffsetY]
    ELSE w

\* CopyVisibility adding the order's rectangles to those the window has.
CopyVisibility_Accumulating(w, flags, ws, fail) ==
    IF "VISIBILITY" \in flags
    THEN [w |-> [w EXCEPT !.numVisibilityRects = @ + ws.numVisibilityRects,
                          !.visibilityRects =
                              Ptr(@.data \o SubSeq(ws.visibilityRects, 1,
                                                   ws.numVisibilityRects))],
          ok |-> TRUE]
    ELSE [w |-> w, ok |-> TRUE]

\* Lines 528-549, as for the window rectangles.
CopyVisibility(w, flags, ws, fail) ==
    IF "VISIBILITY" \in flags
    THEN LET w1 == [w EXCEPT !.visibilityRects = NullPtr,
                             !.numVisibilityRects = ws.numVisibilityRects]
         IN  IF w1.numVisibilityRects # 0
             THEN IF fail = "visibilityRects"
                  THEN [w |-> w1, ok |-> FALSE]
                  ELSE [w |-> [w1 EXCEPT !.visibilityRects =
                                   CopyRects(ws.visibilityRects, w1.numVisibilityRects)],
                        ok |-> TRUE]
             ELSE [w |-> w1, ok |-> TRUE]
    ELSE [w |-> w, ok |-> TRUE]

\* Lines 409-549 in sequence; [w, ok], ok = FALSE when the handler returned
\* FALSE part-way with the fields written so far.
UpdateParameters(w, flags, ws, fail) ==
    LET a == CopyShow(CopyStyle(CopyOwner(CopyResizeMarginY(CopyResizeMarginX(
                 CopyWndSize(CopyWndOffset(w, flags, ws), flags, ws),
                 flags, ws), flags, ws), flags, ws), flags, ws), flags, ws)
        t == CopyTitle(a, flags, ws, fail)
        b == CopyWndClientDelta(CopyClientAreaSize(
                 CopyClientAreaOffset(t.w, flags, ws), flags, ws), flags, ws)
        r == CopyWndRects(b, flags, ws, fail)
        c == CopyVisOffset(r.w, flags, ws)
        v == CopyVisibility(c, flags, ws, fail)
    IN  IF ~t.ok THEN t
        ELSE IF ~r.ok THEN r
        ELSE v

(***************************************************************************)
(* xf_rail_window_common, "Update Window" (lines 551-617).                 *)
(***************************************************************************)
\* WINPR_ASSERTING_INT_CAST(uint32_t, v) of an INT32 where the assertion is
\* compiled out: the value modulo 2^32, written as its upper and lower 16
\* bits.
CastUInt32(v) ==
    IF v >= 0
    THEN <<v \div 65536, v % 65536>>
    ELSE <<65535 - ((-v - 1) \div 65536), 65535 - ((-v - 1) % 65536)>>

\* xf_ShowWindow (xf_window.c): shows, hides or iconifies the X window and
\* records the state it applied in rail_state.
xf_ShowWindow(w, h, state) ==
    [w |-> [w EXCEPT !.rail_state = state],
     fx |-> <<Effect("xf_ShowWindow", h, <<state>>, <<>>, <<>>)>>]

\* Lines 557-560.
ShowEffects(w, h, flags) ==
    IF "SHOW" \in flags
    THEN xf_ShowWindow(w, h, w.showState)
    ELSE [w |-> w, fx |-> <<>>]

\* Lines 562-566.
TitleEffects(w, h, flags) ==
    IF "TITLE" \in flags /\ ~w.title.null
    THEN <<Effect("xf_SetWindowText", h, <<>>, <<>>, w.title.data)>>
    ELSE <<>>

\* Line 398-407.
PositionOrSizeUpdated(flags) == flags \cap GeometryBits # {}

\* Lines 570-575.
VisibilityRectsOffsetX(w) ==
    w.visibleOffsetX - (w.clientOffsetX - w.windowClientDeltaX)

VisibilityRectsOffsetY(w) ==
    w.visibleOffsetY - (w.clientOffsetY - w.windowClientDeltaY)

\* Lines 585-588.
InCorrectPosition(w) ==
    /\ w.x = w.windowOffsetX
    /\ w.y = w.windowOffsetY
    /\ w.width = w.windowWidth
    /\ w.height = w.windowHeight

\* Line 582: the test that lets the local window follow the order.
NotMinimized(w) == w.rail_state # WINDOW_SHOW_MINIMIZED

\* Lines 582-606.
MoveOrRedraw(w, h) ==
    IF InCorrectPosition(w)
    THEN Effect("xf_UpdateWindowArea", h,
                <<0, 0, w.windowWidth, w.windowHeight>>, <<>>, <<>>)
    ELSE Effect("xf_MoveWindow", h,
                <<w.windowOffsetX, w.windowOffsetY, w.windowWidth, w.windowHeight>>,
                <<>>, <<>>)

SetVisibilityRects(w, h) ==
    Effect("xf_SetWindowVisibilityRects", h,
           CastUInt32(VisibilityRectsOffsetX(w))
               \o CastUInt32(VisibilityRectsOffsetY(w))
               \o <<w.numVisibilityRects>>,
           w.visibilityRects.data, <<>>)

\* Lines 600-605: the casts of the two offsets to uint32_t assert that
\* neither is negative.
VisibilityCastsAssert(w, flags) ==
    /\ PositionOrSizeUpdated(flags)
    /\ NotMinimized(w)
    /\ (VisibilityRectsOffsetX(w) < 0 \/ VisibilityRectsOffsetY(w) < 0)

\* GeometryEffects shaping the window before it is moved or redrawn.
GeometryEffects_ShapeFirst(w, h, flags) ==
    IF PositionOrSizeUpdated(flags)
    THEN (IF NotMinimized(w)
          THEN <<SetVisibilityRects(w, h), MoveOrRedraw(w, h)>>
          ELSE <<>>)
         \o
         (IF w.rail_state = WINDOW_SHOW_MAXIMIZED
          THEN <<Effect("xf_SendClientEvent", h, <<>>, <<>>, <<>>)>>
          ELSE <<>>)
    ELSE <<>>

\* Lines 568-614.
GeometryEffects(w, h, flags) ==
    IF PositionOrSizeUpdated(flags)
    THEN (IF NotMinimized(w)
          THEN <<MoveOrRedraw(w, h), SetVisibilityRects(w, h)>>
          ELSE <<>>)
         \o
         (IF w.rail_state = WINDOW_SHOW_MAXIMIZED
          THEN <<Effect("xf_SendClientEvent", h, <<>>, <<>>, <<>>)>>
          ELSE <<>>)
    ELSE <<>>

\* StyleEffects testing the STYLE bit alone.
StyleEffects_StyleOnly(w, h, flags) ==
    IF "STYLE" \in flags
    THEN <<Effect("xf_SetWindowStyle", h, <<w.dwStyle, w.dwExStyle>>, <<>>, <<>>)>>
    ELSE <<>>

\* Lines 616-617.
StyleEffects(w, h, flags) ==
    IF flags \cap {STATE_NEW, "STYLE"} # {}
    THEN <<Effect("xf_SetWindowStyle", h, <<w.dwStyle, w.dwExStyle>>, <<>>, <<>>)>>
    ELSE <<>>

\* Lines 551-617 in sequence.
UpdateWindow(w, h, flags) ==
    LET s == ShowEffects(w, h, flags)
    IN  [w |-> s.w,
         fx |-> s.fx \o TitleEffects(s.w, h, flags)
                     \o GeometryEffects(s.w, h, flags)
                     \o StyleEffects(s.w, h, flags)]

(***************************************************************************)
(* xf_rail_window_common, the new-window part (lines 337-392).             *)
(***************************************************************************)
\* xf_rail_add_window, lines 1239-1250: the object before it is registered.
NewAppWindow(id, x, y, width, height, surfaceId) ==
    [ZeroWindow EXCEPT !.windowId = id, !.surfaceId = surfaceId,
                       !.x = x, !.y = y, !.width = width, !.height = height]

\* CreateFields giving a new window without the TITLE bit the empty title.
CreateFields_EmptyTitle(w, flags, ws, fail) ==
    [w EXCEPT !.dwStyle = ws.style,
              !.dwExStyle = ws.extendedStyle,
              !.title = IF "TITLE" \in flags
                        THEN OrderTitle(ws, fail = "title_new")
                        ELSE IF fail = "title_new" THEN NullPtr
                             ELSE Ptr(<<>>)]

\* Lines 347-383: the style and the title of a new window.
CreateFields(w, flags, ws, fail) ==
    [w EXCEPT !.dwStyle = ws.style,
              !.dwExStyle = ws.extendedStyle,
              !.title = IF "TITLE" \in flags
                        THEN OrderTitle(ws, fail = "title_new")
                        ELSE IF fail = "title_new" THEN NullPtr
                             ELSE Ptr(DefaultTitle)]

\* Lines 347-624 for the window the handler resolved: [w, fx, ret, asserts].
\* A new window left without a title is freed (line 387) and the handler
\* returns FALSE; the table still holds it.  asserts says that the handler
\* came to a cast whose assertion fails.
WindowCommonOn(w, h, flags, ws, fail, fx0) ==
    LET isNew == STATE_NEW \in flags
        w1 == IF isNew THEN CreateFields(w, flags, ws, fail) ELSE w
    IN  IF isNew /\ w1.title.null
        THEN [w |-> [w1 EXCEPT !.freed = TRUE], fx |-> fx0, ret |-> "FALSE",
              asserts |-> FALSE]
        ELSE LET fx1 == IF isNew
                        THEN Append(fx0, Effect("xf_AppWindowInit", h, <<>>, <<>>, <<>>))
                        ELSE fx0
                 u == UpdateParameters(w1, flags, ws, fail)
             IN  IF ~u.ok
                 THEN [w |-> u.w, fx |-> fx1, ret |-> "FALSE", asserts |-> FALSE]
                 ELSE LET d == UpdateWindow(u.w, h, flags)
                      IN  [w |-> d.w, fx |-> fx1 \o d.fx, ret |-> "TRUE",
                           asserts |-> VisibilityCastsAssert(d.w, flags)]

(***************************************************************************)
(* What a handler leaves behind.                                           *)
(***************************************************************************)
Finish(op, r, fx) ==
    /\ lastOp' = op
    /\ ret' = r
    /\ effects' = fx
    /\ nOps' = nOps + 1
    /\ repeats' = IF op = lastOp /\ r = ret THEN repeats + 1 ELSE 1

\* The same for the handlers that leave the remote-app mode alone.
Done(op, r, fx) ==
    /\ Finish(op, r, fx)
    /\ UNCHANGED remote_app

\* The process dies: an assertion, or a use of freed memory that the
\* allocator or the kernel catches.
Crash(op) ==
    /\ crashed' = TRUE
    /\ Done(op, "CRASH", <<>>)
    /\ UNCHANGED <<railWindows, heap, railIconCache>>

Running == ~crashed

\* The points of xf_rail_window_common at which an allocation or a call can
\* fail, and whether the order reaches them.
FailPoints ==
    {"none", "calloc", "xf_AppWindowCreate", "HashTable_Insert",
     "title_new", "title", "windowRects", "visibilityRects"}

FailReached(fail, flags, ws, adds) ==
    CASE fail = "none" -> TRUE
      [] fail \in {"calloc", "xf_AppWindowCreate", "HashTable_Insert"} -> adds
      [] fail = "title_new" -> STATE_NEW \in flags
      [] fail = "title" -> "TITLE" \in flags
      [] fail = "windowRects" -> "WND_RECTS" \in flags /\ ws.numWindowRects # 0
      [] fail = "visibilityRects" ->
             "VISIBILITY" \in flags /\ ws.numVisibilityRects # 0

(***************************************************************************)
(* xf_rail_window_common (lines 323-625), the handler of the window        *)
(* create and window update orders.                                        *)
(***************************************************************************)
\* Lines 339-345 when the id is not registered: xf_rail_add_window at the
\* address hn.  The object is built and registered, or destroyed again.
WindowCommonAdd(op, id, flags, ws, fail, ub, hn) ==
    LET fresh == NewAppWindow(id, ws.windowOffsetX, ws.windowOffsetY,
                              ws.windowWidth, ws.windowHeight, <<65535, 65535>>)
        created == <<Effect("xf_AppWindowCreate", hn, <<>>, <<>>, <<>>)>>
        destroyed == Append(created, Effect("xf_DestroyWindow", hn, <<>>, <<>>, <<>>))
    IN  IF fail = "calloc" \/ hn = NULL
        THEN /\ ub = "stale"
             /\ Done(op, "FALSE", <<>>)
             /\ UNCHANGED <<railWindows, heap, railIconCache, crashed>>
        ELSE IF fail = "xf_AppWindowCreate"
        THEN /\ ub = "stale"
             /\ Done(op, "FALSE", destroyed)
             /\ heap' = Collect((hn :> [fresh EXCEPT !.freed = TRUE]) @@ heap,
                                Registered)
             /\ UNCHANGED <<railWindows, railIconCache, crashed>>
        ELSE IF railWindows.null
        THEN Crash(op)
        ELSE IF fail = "HashTable_Insert"
        THEN /\ ub = "stale"
             /\ Done(op, "FALSE", destroyed)
             /\ heap' = Collect((hn :> [fresh EXCEPT !.freed = TRUE]) @@ heap,
                                Registered)
             /\ UNCHANGED <<railWindows, railIconCache, crashed>>
        ELSE LET r == WindowCommonOn(fresh, hn, flags, ws, fail, created)
             IN  /\ ub = "crash" => r.asserts
                 /\ IF r.asserts /\ ub = "crash"
                    THEN Crash(op)
                    ELSE /\ Done(op, r.ret, r.fx)
                         /\ heap' = (hn :> r.w) @@ heap
                         /\ railWindows' = Ptr(Append(Entries, hn))
                         /\ UNCHANGED <<railIconCache, crashed>>

\* The rest, for a window the table already holds.  A window that was
\* freed is used through the dangling pointer.
WindowCommonFound(op, flags, ws, fail, ub, h) ==
    LET r == WindowCommonOn(heap[h], h, flags, ws, fail, <<>>)
    IN  /\ ub = "crash" => (heap[h].freed \/ r.asserts)
        /\ IF ub = "crash"
           THEN Crash(op)
           ELSE /\ Done(op, r.ret, r.fx)
                /\ heap' = [heap EXCEPT ![h] = r.w]
                /\ UNCHANGED <<railWindows, railIconCache, crashed>>

xf_rail_window_common(id, flags, ws, fail, ub) ==
    /\ Running
    /\ \E h \in xf_rail_get_window(id) :
         LET adds == STATE_NEW \in flags /\ h = NULL
             op == [name |-> "xf_rail_window_common", windowId |-> id,
                    fieldFlags |-> flags, ws |-> ws, fail |-> fail, win |-> h]
         IN  /\ FailReached(fail, flags, ws, adds)
             /\ IF adds
                THEN \E hn \in (IF CallocChoices = {} THEN {NULL} ELSE CallocChoices) :
                        WindowCommonAdd([op EXCEPT !.win = hn], id, flags, ws, fail,
                                        ub, hn)
                ELSE IF h = NULL
                THEN /\ ub = "stale"
                     /\ Done(op, "FALSE", <<>>)
                     /\ UNCHANGED <<railWindows, heap, railIconCache, crashed>>
                ELSE WindowCommonFound(op, flags, ws, fail, ub, h)

\* The handlers that take no WINDOW_STATE_ORDER.
NoOrderState == [windowOffsetX |-> 0]

(***************************************************************************)
(* xf_rail_window_delete and xf_rail_del_window (lines 627-632 and         *)
(* 1262-1271).  HashTable_Remove drops the entry and frees its value with  *)
(* rail_window_free, which destroys the window.                            *)
(***************************************************************************)
xf_rail_window_delete(id, ub) ==
    /\ Running
    /\ LET op == [name |-> "xf_rail_window_delete", windowId |-> id,
                  fieldFlags |-> {}, ws |-> NoOrderState, fail |-> "none", win |-> NULL]
       IN  IF railWindows.null \/ Matches(id) = {}
           THEN /\ ub = "stale"
                /\ Done(op, "FALSE", <<>>)
                /\ UNCHANGED <<railWindows, heap, railIconCache, crashed>>
           ELSE \E i \in Matches(id) :
                  LET h == Entries[i]
                      rest == RemoveAt(Entries, i)
                  IN  /\ ub = "crash" => heap[h].freed
                      /\ IF heap[h].freed /\ ub = "crash"
                         THEN Crash([op EXCEPT !.win = h])
                         ELSE /\ Done([op EXCEPT !.win = h], "TRUE",
                                      <<Effect("xf_DestroyWindow", h, <<>>, <<>>, <<>>)>>)
                              /\ railWindows' = Ptr(rest)
                              /\ heap' = Collect([heap EXCEPT ![h].freed = TRUE],
                                                 {rest[j] : j \in 1..Len(rest)})
                              /\ UNCHANGED <<railIconCache, crashed>>

(***************************************************************************)
(* The icon cache (lines 57-70 and 634-671).                               *)
(***************************************************************************)
NullCache == [null |-> TRUE, numCaches |-> 0, numCacheEntries |-> 0,
              entries |-> <<>>, scratch |-> [data |-> NullPtr, length |-> 0]]

\* calloc'ed xfRailIcon.
ZeroIcon == [data |-> NullPtr, length |-> 0]

\* RailIconCache_New: the grid of numCaches * numCacheEntries zeroed entries,
\* indexed from 0, and the scratch entry.
RailIconCache_New(numCaches, numCacheEntries) ==
    [null |-> FALSE, numCaches |-> numCaches, numCacheEntries |-> numCacheEntries,
     entries |-> [i \in 0..(numCaches * numCacheEntries - 1) |-> ZeroIcon],
     scratch |-> ZeroIcon]

\* What RailIconCache_Lookup returns: NULL, &cache->scratch or
\* &cache->entries[index].
NullIcon == [null |-> TRUE, scratch |-> FALSE, index |-> 0]
ScratchIcon == [null |-> FALSE, scratch |-> TRUE, index |-> 0]
EntryIcon(i) == [null |-> FALSE, scratch |-> FALSE, index |-> i]

\* RailIconCache_Lookup clamping a cacheId past the last cache to the last
\* cache.
RailIconCache_Lookup_Clamped(cache, cacheId, cacheEntry) ==
    IF cacheId = ScratchCacheId THEN ScratchIcon
    ELSE IF cache.numCaches = 0 THEN NullIcon
    ELSE IF cacheEntry >= cache.numCacheEntries THEN NullIcon
    ELSE EntryIcon(cache.numCacheEntries
                       * (IF cacheId >= cache.numCaches
                          THEN cache.numCaches - 1 ELSE cacheId)
                   + cacheEntry)

\* RailIconCache_Lookup falling back to the scratch entry when the
\* arguments are out of range.
RailIconCache_Lookup_Fallback(cache, cacheId, cacheEntry) ==
    IF cacheId = ScratchCacheId THEN ScratchIcon
    ELSE IF cacheId >= cache.numCaches THEN ScratchIcon
    ELSE IF cacheEntry >= cache.numCacheEntries THEN ScratchIcon
    ELSE EntryIcon(cache.numCacheEntries * cacheId + cacheEntry)

\* RailIconCache_Lookup giving the first entry of the cache, whatever the
\* cacheEntry.
RailIconCache_Lookup_FirstEntry(cache, cacheId, cacheEntry) ==
    IF cacheId = ScratchCacheId THEN ScratchIcon
    ELSE IF cacheId >= cache.numCaches THEN NullIcon
    ELSE IF cacheEntry >= cache.numCacheEntries THEN NullIcon
    ELSE EntryIcon(cache.numCacheEntries * cacheId)

\* RailIconCache_Lookup (lines 685-694) on a cache that exists; cacheId is a
\* UINT8 and cacheEntry a UINT16.
RailIconCache_Lookup(cache, cacheId, cacheEntry) ==
    IF cacheId = ScratchCacheId THEN ScratchIcon
    ELSE IF cacheId >= cache.numCaches THEN NullIcon
    ELSE IF cacheEntry >= cache.numCacheEntries THEN NullIcon
    ELSE EntryIcon(cache.numCacheEntries * cacheId + cacheEntry)

\* The xfRailIcon a lookup result points to.
IconAt(cache, icon) ==
    IF icon.scratch THEN cache.scratch ELSE cache.entries[icon.index]

(***************************************************************************)
(* xf_rail_init and xf_rail_uninit (lines 1163-1231).  The session layer   *)
(* calls them in turn: init when the channel attaches, uninit when it      *)
(* detaches.                                                               *)
(***************************************************************************)
xf_rail_init(numCaches, numCacheEntries, fail) ==
    /\ Running
    /\ railWindows.null
    /\ fail = "calloc(0)" => numCaches * numCacheEntries = 0
    /\ LET op == [name |-> "xf_rail_init", windowId |-> 0, fieldFlags |-> {},
                  ws |-> [numCaches |-> numCaches,
                          numCacheEntries |-> numCacheEntries],
                  fail |-> fail, win |-> NULL]
       IN  IF fail = "HashTable_New"
           THEN /\ Done(op, "0", <<>>)
                /\ UNCHANGED <<railWindows, heap, railIconCache, crashed>>
           ELSE /\ Done(op, "1", <<>>)
                /\ railWindows' = Ptr(<<>>)
                /\ railIconCache' = IF fail \in {"RailIconCache_New", "calloc(0)"}
                                    THEN NullCache
                                    ELSE RailIconCache_New(numCaches, numCacheEntries)
                /\ UNCHANGED <<heap, crashed>>

\* HashTable_Free frees every value; a value that is already freed, or that
\* two entries share, is freed twice.
FreedTwice ==
    \/ \E i \in 1..Len(Entries) : heap[Entries[i]].freed
    \/ \E i, j \in 1..Len(Entries) : i # j /\ Entries[i] = Entries[j]

xf_rail_uninit(ub) ==
    /\ Running
    /\ ub = "crash" => FreedTwice
    /\ LET op == [name |-> "xf_rail_uninit", windowId |-> 0, fieldFlags |-> {},
                  ws |-> NoOrderState, fail |-> "none", win |-> NULL]
       IN  IF ub = "crash"
           THEN Crash(op)
           ELSE /\ Done(op, "1",
                        [i \in 1..Len(Entries) |->
                            Effect("xf_DestroyWindow", Entries[i], <<>>, <<>>, <<>>)])
                /\ railWindows' = NullPtr
                /\ heap' = Collect([h \in DOMAIN heap |->
                                        IF h \in Registered
                                        THEN [heap[h] EXCEPT !.freed = TRUE]
                                        ELSE heap[h]], {})
                /\ railIconCache' = NullCache
                /\ UNCHANGED crashed

(***************************************************************************)
(* xf_rail_window_cached_icon (lines 799-827): the window's icon becomes   *)
(* the one the cache holds at (cacheId, cacheEntry).                       *)
(***************************************************************************)
\* xf_rail_set_window_icon (lines 754-763): the property change, with the
\* slot the icon came from, its length and its pixels.
SetWindowIconIn(cache, h, icon, replace) ==
    Effect("xf_rail_set_window_icon", h,
           <<IF replace THEN 1 ELSE 0, IF icon.scratch THEN 1 ELSE 0, icon.index,
             IconAt(cache, icon).length>>,
           <<>>, IconAt(cache, icon).data.data)

SetWindowIcon(h, icon, replace) == SetWindowIconIn(railIconCache, h, icon, replace)

\* Without a cache, WINPR_ASSERT(cache) at line 675 ends the process; a
\* build without assertions reads through the null pointer.
xf_rail_window_cached_icon(id, new, cacheId, cacheEntry, ub) ==
    /\ Running
    /\ \E h \in xf_rail_get_window(id) :
         LET op == [name |-> "xf_rail_window_cached_icon", windowId |-> id,
                    fieldFlags |-> NewBit(new),
                    ws |-> [cacheId |-> cacheId, cacheEntry |-> cacheEntry],
                    fail |-> "none", win |-> h]
             icon == RailIconCache_Lookup(railIconCache, cacheId, cacheEntry)
         IN  /\ ub = "crash" => (h # NULL /\ heap[h].freed)
             /\ IF h = NULL
                THEN /\ Done(op, "TRUE", <<>>)
                     /\ UNCHANGED <<railWindows, heap, railIconCache, crashed>>
                ELSE IF railIconCache.null
                THEN Crash(op)
                ELSE IF icon.null
                THEN /\ Done(op, "FALSE", <<>>)
                     /\ UNCHANGED <<railWindows, heap, railIconCache, crashed>>
                ELSE IF heap[h].freed /\ ub = "crash"
                THEN Crash(op)
                ELSE /\ Done(op, "TRUE", <<SetWindowIcon(h, icon, new)>>)
                     /\ UNCHANGED <<railWindows, heap, railIconCache, crashed>>

(***************************************************************************)
(* xf_rail_window_icon (lines 765-797): the icon of the order is stored in *)
(* the cache at (cacheId, cacheEntry) and becomes the window's icon.       *)
(***************************************************************************)
\* An ICON_INFO: bitsColor holds one <<blue, green, red>> for each pixel that
\* the order carries, top-down, at bpp bits per pixel.
IconInfo(cacheId, cacheEntry, width, height, bpp, bitsColor) ==
    [cacheId |-> cacheId, cacheEntry |-> cacheEntry, width |-> width,
     height |-> height, bpp |-> bpp, bitsColor |-> bitsColor]

\* freerdp_image_copy_from_icon_data (codec/color.c) to ARGB32 in memory
\* order blue, green, red, alpha: NULL when the depth is not one it knows or
\* the order carries fewer pixels than width * height; the pixels are
\* opaque.
freerdp_image_copy_from_icon_data(iconInfo) ==
    LET n == iconInfo.width * iconInfo.height
    IN  IF iconInfo.bpp # 24 \/ Len(iconInfo.bitsColor) < n
        THEN NullPtr
        ELSE Ptr([i \in 1..n |-> iconInfo.bitsColor[i] \o <<255>>])

\* FreeRDPReadColor(p, PIXEL_FORMAT_BGRA32): the colour of four bytes, as
\* <<alpha, red, green, blue>>.
FreeRDPReadColor(p) == <<p[4], p[3], p[2], p[1]>>

\* The allocation that fails during convert_rail_icon, if it is reached:
\* calloc of zero bytes may return NULL where memory is plentiful.
IconFails == {"none", "calloc", "calloc(0)", "realloc"}

IconFailReached(iconInfo, fail) ==
    CASE fail = "calloc(0)" -> iconInfo.width * iconInfo.height = 0
      [] fail = "realloc" -> ~freerdp_image_copy_from_icon_data(iconInfo).null
      [] OTHER -> TRUE

\* convert_rail_icon that gives up the old pixels before it decodes.
convert_rail_icon_FreesFirst(iconInfo, railIcon, fail) ==
    LET n == iconInfo.width * iconInfo.height
        argbPixels == freerdp_image_copy_from_icon_data(iconInfo)
        nelements == 2 + n
    IN  IF fail \in {"calloc", "calloc(0)"} \/ argbPixels.null \/ fail = "realloc"
        THEN [icon |-> ZeroIcon, ok |-> FALSE]
        ELSE [icon |-> [data |-> Ptr(<<iconInfo.width, iconInfo.height>>
                                     \o [i \in 1..n |->
                                            FreeRDPReadColor(argbPixels.data[i])]),
                        length |-> nelements],
              ok |-> TRUE]

\* convert_rail_icon (lines 707-752): [icon, ok].  The pixels are decoded
\* into argbPixels; railIcon is written after realloc has succeeded.  width
\* and height are at most 65535 (lines 721-722), so that 2 + width * height
\* stays below 2^32.
convert_rail_icon(iconInfo, railIcon, fail) ==
    LET n == iconInfo.width * iconInfo.height
        argbPixels == freerdp_image_copy_from_icon_data(iconInfo)
        nelements == 2 + n
    IN  IF fail \in {"calloc", "calloc(0)"} \/ argbPixels.null \/ fail = "realloc"
        THEN [icon |-> railIcon, ok |-> FALSE]
        ELSE [icon |-> [data |-> Ptr(<<iconInfo.width, iconInfo.height>>
                                     \o [i \in 1..n |->
                                            FreeRDPReadColor(argbPixels.data[i])]),
                        length |-> nelements],
              ok |-> TRUE]

\* The cache with the xfRailIcon that a lookup result points to replaced.
StoreIcon(cache, icon, railIcon) ==
    IF icon.scratch THEN [cache EXCEPT !.scratch = railIcon]
    ELSE [cache EXCEPT !.entries[icon.index] = railIcon]

xf_rail_window_icon(id, new, iconInfo, fail, ub) ==
    /\ Running
    /\ \E h \in xf_rail_get_window(id) :
         LET op == [name |-> "xf_rail_window_icon", windowId |-> id,
                    fieldFlags |-> NewBit(new), ws |-> iconInfo,
                    fail |-> fail, win |-> h]
             icon == RailIconCache_Lookup(railIconCache, iconInfo.cacheId,
                                          iconInfo.cacheEntry)
         IN  /\ ub = "crash" => (h # NULL /\ heap[h].freed)
             /\ fail # "none"
                  => (h # NULL /\ ~railIconCache.null /\ ~icon.null
                      /\ IconFailReached(iconInfo, fail))
             /\ IF h = NULL
                THEN /\ Done(op, "TRUE", <<>>)
                     /\ UNCHANGED <<railWindows, heap, railIconCache, crashed>>
                ELSE IF railIconCache.null
                THEN Crash(op)
                ELSE IF icon.null
                THEN /\ Done(op, "FALSE", <<>>)
                     /\ UNCHANGED <<railWindows, heap, railIconCache, crashed>>
                ELSE LET c == convert_rail_icon(iconInfo, IconAt(railIconCache, icon),
                                                fail)
                         cache == StoreIcon(railIconCache, icon, c.icon)
                     IN  IF ~c.ok
                         THEN /\ Done(op, "FALSE", <<>>)
                              /\ railIconCache' = cache
                              /\ UNCHANGED <<railWindows, heap, crashed>>
                         ELSE IF heap[h].freed /\ ub = "crash"
                         THEN /\ crashed' = TRUE
                              /\ Done(op, "CRASH", <<>>)
                              /\ railIconCache' = cache
                              /\ UNCHANGED <<railWindows, heap>>
                         ELSE /\ Done(op, "TRUE",
                                      <<SetWindowIconIn(cache, h, icon, new)>>)
                              /\ railIconCache' = cache
                              /\ UNCHANGED <<railWindows, heap, crashed>>

(***************************************************************************)
(* The local move/resize (lines 171-236 and 988-1083).                     *)
(***************************************************************************)
KeyboardTypes == {"RAIL_WMSZ_KEYMOVE", "RAIL_WMSZ_KEYSIZE"}

\* The values of moveSizeType that the switch names, and one it does not.
MoveSizeTypes ==
    { "RAIL_WMSZ_LEFT", "RAIL_WMSZ_RIGHT", "RAIL_WMSZ_TOP", "RAIL_WMSZ_TOPLEFT",
      "RAIL_WMSZ_TOPRIGHT", "RAIL_WMSZ_BOTTOM", "RAIL_WMSZ_BOTTOMLEFT",
      "RAIL_WMSZ_BOTTOMRIGHT", "RAIL_WMSZ_MOVE" } \cup KeyboardTypes \cup {"OTHER"}

KeyboardDirections ==
    {"NET_WM_MOVERESIZE_MOVE_KEYBOARD", "NET_WM_MOVERESIZE_SIZE_KEYBOARD"}

\* Lines 1004-1075: the direction of a moveSizeType.  A value the switch
\* does not name leaves direction at 0, NET_WM_MOVERESIZE_SIZE_TOPLEFT.
DirectionOf(moveSizeType) ==
    CASE moveSizeType = "RAIL_WMSZ_LEFT" -> "NET_WM_MOVERESIZE_SIZE_LEFT"
      [] moveSizeType = "RAIL_WMSZ_RIGHT" -> "NET_WM_MOVERESIZE_SIZE_RIGHT"
      [] moveSizeType = "RAIL_WMSZ_TOP" -> "NET_WM_MOVERESIZE_SIZE_TOP"
      [] moveSizeType = "RAIL_WMSZ_TOPLEFT" -> "NET_WM_MOVERESIZE_SIZE_TOPLEFT"
      [] moveSizeType = "RAIL_WMSZ_TOPRIGHT" -> "NET_WM_MOVERESIZE_SIZE_TOPRIGHT"
      [] moveSizeType = "RAIL_WMSZ_BOTTOM" -> "NET_WM_MOVERESIZE_SIZE_BOTTOM"
      [] moveSizeType = "RAIL_WMSZ_BOTTOMLEFT" -> "NET_WM_MOVERESIZE_SIZE_BOTTOMLEFT"
      [] moveSizeType = "RAIL_WMSZ_BOTTOMRIGHT" -> "NET_WM_MOVERESIZE_SIZE_BOTTOMRIGHT"
      [] moveSizeType = "RAIL_WMSZ_MOVE" -> "NET_WM_MOVERESIZE_MOVE"
      [] moveSizeType = "RAIL_WMSZ_KEYMOVE" -> "NET_WM_MOVERESIZE_MOVE_KEYBOARD"
      [] moveSizeType = "RAIL_WMSZ_KEYSIZE" -> "NET_WM_MOVERESIZE_SIZE_KEYBOARD"
      [] OTHER -> "NET_WM_MOVERESIZE_SIZE_TOPLEFT"

\* XTranslateCoordinates from the window to the root window.
XTranslateCoordinates(w, posX, posY) == <<w.x + posX, w.y + posY>>

\* Lines 1006-1075: the point handed to the window manager.
MovePoint(w, moveSizeType, posX, posY) ==
    IF moveSizeType = "RAIL_WMSZ_MOVE" THEN XTranslateCoordinates(w, posX, posY)
    ELSE IF moveSizeType = "OTHER" THEN <<0, 0>>
    ELSE <<posX, posY>>

\* A window that is in a move or resize: Active or Terminating.
InMove(w) == ~w.freed /\ w.local_move.state # "LMS_NOT_ACTIVE"

\* xf_StartLocalMoveSize (xf_window.c): the start of the coordinator.  Only
\* one window may be Active or Terminating; a start while one is fails with
\* Busy and changes nothing, else the window becomes Active in the
\* direction given: [heap, result].
xf_StartLocalMoveSize(hp, h, direction) ==
    IF \E g \in DOMAIN hp : InMove(hp[g])
    THEN [heap |-> hp, result |-> "Busy"]
    ELSE [heap |-> [hp EXCEPT ![h].local_move =
                        [state |-> "LMS_ACTIVE", direction |-> direction]],
          result |-> "Ok"]

\* xf_EndLocalMoveSize (xf_window.c): the final sync of the coordinator; the
\* window is back to NotActive.
xf_EndLocalMoveSize(hp, h) ==
    [hp EXCEPT ![h].local_move.state = "LMS_NOT_ACTIVE"]

\* xf_rail_server_local_move_size: the order of the remote peer that starts
\* or ends a local move.  The keyboard types return before either call
\* (lines 1065 and 1072); the result of the calls is not looked at.
xf_rail_server_local_move_size(id, moveSizeType, isMoveSizeStart, posX, posY, ub) ==
    /\ Running
    /\ \E h \in xf_rail_get_window(id) :
         LET op == [name |-> "xf_rail_server_local_move_size", windowId |-> id,
                    fieldFlags |-> {},
                    ws |-> [moveSizeType |-> moveSizeType,
                            isMoveSizeStart |-> isMoveSizeStart,
                            posX |-> posX, posY |-> posY],
                    fail |-> "none", win |-> h]
         IN  /\ ub = "crash" => (h # NULL /\ heap[h].freed)
             /\ IF h = NULL
                THEN /\ Done(op, "ERROR_INTERNAL_ERROR", <<>>)
                     /\ UNCHANGED <<railWindows, heap, railIconCache, crashed>>
                ELSE IF moveSizeType \in KeyboardTypes
                THEN /\ Done(op, "CHANNEL_RC_OK", <<>>)
                     /\ UNCHANGED <<railWindows, heap, railIconCache, crashed>>
                ELSE IF heap[h].freed /\ ub = "crash"
                THEN Crash(op)
                ELSE IF isMoveSizeStart
                THEN LET s == xf_StartLocalMoveSize(heap, h, DirectionOf(moveSizeType))
                     IN  /\ Done(op, "CHANNEL_RC_OK",
                                 <<Effect("xf_StartLocalMoveSize", h,
                                          MovePoint(heap[h], moveSizeType, posX, posY),
                                          <<>>, <<>>)>>)
                         /\ heap' = s.heap
                         /\ UNCHANGED <<railWindows, railIconCache, crashed>>
                ELSE /\ Done(op, "CHANNEL_RC_OK",
                             <<Effect("xf_EndLocalMoveSize", h, <<>>, <<>>, <<>>)>>)
                     /\ heap' = xf_EndLocalMoveSize(heap, h)
                     /\ UNCHANGED <<railWindows, railIconCache, crashed>>

\* WINPR_ASSERTING_INT_CAST(INT16, v): v when it fits; else the assertion
\* ends the process, or a build without assertions keeps the low 16 bits.
FitsInt16(v) == v >= -32768 /\ v <= 32767

Int16(v) == ((v + 32768) % 65536) - 32768

\* The test with its second comparison left out.
IsKeyboardDirection_MoveOnly(direction) ==
    direction = "NET_WM_MOVERESIZE_MOVE_KEYBOARD"

\* Lines 184-185 and 220-221: the test of the recorded direction.
IsKeyboardDirection(direction) ==
    \/ direction = "NET_WM_MOVERESIZE_MOVE_KEYBOARD"
    \/ direction = "NET_WM_MOVERESIZE_SIZE_KEYBOARD"

\* Lines 199-209: the values that the keyboard branch casts to INT16, in the
\* order of the code.
EndMoveCasts(w) ==
    LET left == Int16(w.resizeMarginLeft)
        right == Int16(w.resizeMarginRight)
        top == Int16(w.resizeMarginTop)
        bottom == Int16(w.resizeMarginBottom)
        wd == Int16(w.width + right)
        ht == Int16(w.height + bottom)
    IN  <<w.resizeMarginLeft, w.resizeMarginRight, w.resizeMarginTop,
          w.resizeMarginBottom, w.width + right, w.height + bottom,
          w.x - left, w.y - top, w.x + wd, w.y + ht>>

\* EndMoveOrder with right and bottom at the last pixel of the window.
EndMoveOrder_LastPixel(w) ==
    LET c == EndMoveCasts(w)
    IN  <<Int16(c[7]), Int16(c[8]), Int16(c[9] - 1), Int16(c[10] - 1)>>

\* Lines 199-210: the RAIL_WINDOW_MOVE_ORDER at the end of a keyboard move,
\* <<left, top, right, bottom>>.
EndMoveOrder(w) ==
    LET c == EndMoveCasts(w)
    IN  <<Int16(c[7]), Int16(c[8]), Int16(c[9]), Int16(c[10])>>

\* xf_rail_end_local_move without the copy of the local size.
ProactiveGeometry_PositionOnly(w) ==
    [w EXCEPT !.windowOffsetX = w.x,
              !.windowOffsetY = w.y,
              !.local_move.state = "LMS_TERMINATING"]

\* Lines 230-235: the window takes its local geometry as the remote one.
\* The local width and height are never negative.
ProactiveGeometry(w) ==
    [w EXCEPT !.windowOffsetX = w.x,
              !.windowOffsetY = w.y,
              !.windowWidth = w.width,
              !.windowHeight = w.height,
              !.local_move.state = "LMS_TERMINATING"]

\* xf_rail_end_local_move: the window layer calls it when the local move of
\* the window is over; (px, py) is where XQueryPointer finds the pointer.
xf_rail_end_local_move(id, px, py, ub) ==
    /\ Running
    /\ \E h \in xf_rail_get_window(id) \ {NULL} :
         LET w == heap[h]
             op == [name |-> "xf_rail_end_local_move", windowId |-> id,
                    fieldFlags |-> {}, ws |-> [px |-> px, py |-> py],
                    fail |-> "none", win |-> h]
             keyboard == IsKeyboardDirection(w.local_move.direction)
             c == EndMoveCasts(w)
             fits == \A i \in 1..Len(c) : FitsInt16(c[i])
         IN  /\ w.local_move.state = "LMS_ACTIVE"
             /\ ub = "crash" => (keyboard /\ ~fits)
             /\ IF ub = "crash"
                THEN Crash(op)
                ELSE /\ Done(op, "void",
                             IF keyboard
                             THEN <<Effect("ClientWindowMove", h, EndMoveOrder(w),
                                           <<>>, <<>>)>>
                             ELSE <<Effect("freerdp_client_send_button_event", h,
                                           <<FALSE, "PTR_FLAGS_BUTTON1", px, py>>,
                                           <<>>, <<>>)>>)
                     /\ heap' = [heap EXCEPT ![h] = ProactiveGeometry(w)]
                     /\ UNCHANGED <<railWindows, railIconCache, crashed>>

(***************************************************************************)
(* xf_rail_adjust_position (lines 138-169): the window layer calls it when *)
(* the X server reports the geometry of the local window.                  *)
(***************************************************************************)
\* xf_rail_adjust_position that goes on during a local move.
AdjustSkips_Unmapped(w) == ~w.is_mapped

\* Line 144: the early return.
AdjustSkips(w) == ~w.is_mapped \/ w.local_move.state # "LMS_NOT_ACTIVE"

\* Lines 147-149: the local window is not where the remote one is.
OutOfSync(w) ==
    \/ w.x # w.windowOffsetX
    \/ w.y # w.windowOffsetY
    \/ w.width # w.windowWidth
    \/ w.height # w.windowHeight

\* Lines 158-166: the values cast to INT16, in the order of the code.
AdjustCasts(w) ==
    LET left == Int16(w.resizeMarginLeft)
        right == Int16(w.resizeMarginRight)
        top == Int16(w.resizeMarginTop)
        bottom == Int16(w.resizeMarginBottom)
    IN  <<w.resizeMarginLeft, w.resizeMarginRight, w.resizeMarginTop,
          w.resizeMarginBottom, w.x - left, w.y - top,
          w.x + w.width + right, w.y + w.height + bottom>>

\* AdjustMoveOrder with right and bottom one further.
AdjustMoveOrder_OnePast(w) ==
    LET c == AdjustCasts(w)
    IN  <<Int16(c[5]), Int16(c[6]), Int16(c[7] + 1), Int16(c[8] + 1)>>

\* Lines 158-166: the RAIL_WINDOW_MOVE_ORDER, <<left, top, right, bottom>>.
AdjustMoveOrder(w) ==
    LET c == AdjustCasts(w)
    IN  <<Int16(c[5]), Int16(c[6]), Int16(c[7]), Int16(c[8])>>

xf_rail_adjust_position(id, ub) ==
    /\ Running
    /\ \E h \in xf_rail_get_window(id) \ {NULL} :
         LET w == heap[h]
             op == [name |-> "xf_rail_adjust_position", windowId |-> id,
                    fieldFlags |-> {}, ws |-> NoOrderState,
                    fail |-> "none", win |-> h]
             c == AdjustCasts(w)
             fits == \A i \in 1..Len(c) : FitsInt16(c[i])
             sends == ~AdjustSkips(w) /\ OutOfSync(w)
         IN  /\ ~w.freed
             /\ ub = "crash" => (sends /\ ~fits)
             /\ IF ub = "crash"
                THEN Crash(op)
                ELSE /\ Done(op, "void",
                             IF sends
                             THEN <<Effect("ClientWindowMove", h, AdjustMoveOrder(w),
                                           <<>>, <<>>)>>
                             ELSE <<>>)
                     /\ UNCHANGED <<railWindows, heap, railIconCache, crashed>>

(***************************************************************************)
(* The window layer (xf_window.c, xf_event.c) on the local side: the X     *)
(* server reports where the local window is and whether it is mapped, and  *)
(* a local move begins.                                                    *)
(***************************************************************************)
\* ConfigureNotify, MapNotify and UnmapNotify: the local geometry and
\* is_mapped of the window follow the X server.
xf_event_LocalGeometry(id, x, y, width, height, mapped) ==
    /\ Running
    /\ \E h \in xf_rail_get_window(id) \ {NULL} :
         LET w == heap[h]
             op == [name |-> "xf_event_LocalGeometry", windowId |-> id,
                    fieldFlags |-> {},
                    ws |-> [x |-> x, y |-> y, width |-> width, height |-> height,
                            is_mapped |-> mapped],
                    fail |-> "none", win |-> h]
         IN  /\ ~w.freed
             /\ Done(op, "void", <<>>)
             /\ heap' = [heap EXCEPT ![h] =
                            [w EXCEPT !.x = x, !.y = y, !.width = width,
                                      !.height = height, !.is_mapped = mapped]]
             /\ UNCHANGED <<railWindows, railIconCache, crashed>>

\* The start of the coordinator in a direction given, keyboard directions
\* included: the window is recorded as Active unless a window is in a move.
StartLocalMove(id, direction) ==
    /\ Running
    /\ \E h \in xf_rail_get_window(id) \ {NULL} :
         LET op == [name |-> "xf_StartLocalMoveSize", windowId |-> id,
                    fieldFlags |-> {}, ws |-> [direction |-> direction],
                    fail |-> "none", win |-> h]
             s == xf_StartLocalMoveSize(heap, h, direction)
         IN  /\ ~heap[h].freed
             /\ Done(op, s.result, <<>>)
             /\ heap' = s.heap
             /\ UNCHANGED <<railWindows, railIconCache, crashed>>

(***************************************************************************)
(* The repaint of a dirty rectangle (lines 238-298).                       *)
(***************************************************************************)
MAX(a, b) == IF a > b THEN a ELSE b
MIN(a, b) == IF a < b THEN a ELSE b

\* A REGION16 (codec/region.c) as the sequence of its rectangles, none of
\* them empty; region16_init gives the empty region.
rectangle_is_empty(r) == r.left >= r.right \/ r.top >= r.bottom

rectangles_intersection(a, b) ==
    Rect(MAX(a.left, b.left), MAX(a.top, b.top),
         MIN(a.right, b.right), MIN(a.bottom, b.bottom))

region16_init == <<>>

\* The union of a region without rectangles and a rectangle, the one case
\* that xf_rail_paint_surface needs.
region16_union_rect(region, rect) ==
    IF rectangle_is_empty(rect) THEN region ELSE Append(region, rect)

RECURSIVE region16_intersect_rect(_, _)
region16_intersect_rect(region, rect) ==
    IF region = <<>> THEN <<>>
    ELSE LET c == rectangles_intersection(Head(region), rect)
             rest == region16_intersect_rect(Tail(region), rect)
         IN  IF rectangle_is_empty(c) THEN rest ELSE <<c>> \o rest

region16_is_empty(region) == region = <<>>

RECURSIVE region16_extents(_)
region16_extents(region) ==
    IF Len(region) = 1 THEN region[1]
    ELSE LET e == region16_extents(Tail(region))
             r == Head(region)
         IN  Rect(MIN(r.left, e.left), MIN(r.top, e.top),
                  MAX(r.right, e.right), MAX(r.bottom, e.bottom))

\* Lines 247-252: the window on the screen, negative origins clamped.
WindowRect(w) ==
    Rect(MAX(w.x, 0), MAX(w.y, 0),
         MAX(w.x + w.width, 0), MAX(w.y + w.height, 0))

\* UpdateRect without the translation to the window's coordinates.
UpdateRect_Untranslated(w, h, extents) ==
    Effect("xf_UpdateWindowArea", h,
           <<extents.left, extents.top,
             extents.right - extents.left, extents.bottom - extents.top>>,
           <<>>, <<>>)

\* Lines 263-271: the call that redraws a part of the window; extents is in
\* screen coordinates, the arguments are x, y, width and height in the
\* window's own.
UpdateRect(w, h, extents) ==
    LET left == extents.left - w.x
        top == extents.top - w.y
        right == extents.right - w.x
        bottom == extents.bottom - w.y
    IN  Effect("xf_UpdateWindowArea", h,
               <<left, top, right - left, bottom - top>>, <<>>, <<>>)

\* xf_rail_paint_surface for a window the table holds: the calls it makes.
xf_rail_paint_surface(w, h, rect) ==
    LET windowInvalidRegion ==
            region16_intersect_rect(
                region16_union_rect(region16_init, WindowRect(w)), rect)
    IN  IF ~region16_is_empty(windowInvalidRegion)
        THEN <<UpdateRect(w, h, region16_extents(windowInvalidRegion))>>
        ELSE <<>>

\* The orders in which HashTable_Foreach may visit n entries.
VisitOrders(n) ==
    {p \in [1..n -> 1..n] : \A i, j \in 1..n : i # j => p[i] # p[j]}

RECURSIVE PaintAll(_, _, _)
PaintAll(visit, i, rect) ==
    IF i > Len(visit) THEN <<>>
    ELSE xf_rail_paint_surface(heap[Entries[visit[i]]], Entries[visit[i]], rect)
             \o PaintAll(visit, i + 1, rect)

\* xf_rail_paint: every window of the table is painted, in the order of the
\* hash table; TRUE without a table.
xf_rail_paint(rect, ub) ==
    /\ Running
    /\ LET op == [name |-> "xf_rail_paint", windowId |-> 0, fieldFlags |-> {},
                  ws |-> rect, fail |-> "none", win |-> NULL]
           stale == \E h \in Registered : heap[h].freed
       IN  /\ ub = "crash" => stale
           /\ IF railWindows.null
              THEN /\ Done(op, "TRUE", <<>>)
                   /\ UNCHANGED <<railWindows, heap, railIconCache, crashed>>
              ELSE IF stale /\ ub = "crash"
              THEN Crash(op)
              ELSE \E visit \in VisitOrders(Len(Entries)) :
                     /\ Done(op, "TRUE", PaintAll(visit, 1, rect))
                     /\ UNCHANGED <<railWindows, heap, railIconCache, crashed>>

(***************************************************************************)
(* The result of the remote execution and the remote-app mode.             *)
(***************************************************************************)
RAIL_EXEC_S_OK == 0

\* error_code_names (lines 39-45) has one name for each of the codes 0..6.
NumErrorCodeNames == 7

\* A call that names no window.
Call(name) == Effect(name, NULL, <<>>, <<>>, <<>>)

\* xf_rail_enable_remoteapp_mode (lines 78-88): [remote_app, fx].
xf_rail_enable_remoteapp_mode ==
    IF ~remote_app
    THEN [remote_app |-> TRUE,
          fx |-> <<Call("xf_CreateDummyWindow"), Call("xf_DestroyDesktopWindow")>>]
    ELSE [remote_app |-> remote_app, fx |-> <<>>]

\* xf_rail_disable_remoteapp_mode (lines 90-100): [remote_app, fx].
xf_rail_disable_remoteapp_mode ==
    IF remote_app
    THEN [remote_app |-> FALSE,
          fx |-> <<Call("xf_DestroyDummyWindow"), Call("xf_create_window"),
                   Call("xf_create_image")>>]
    ELSE [remote_app |-> remote_app, fx |-> <<>>]

\* ExecResultIsError taking RAIL_EXEC_E_HOOK_NOT_LOADED for a success.
ExecResultIsError_Lenient(execResult) == execResult > 1

\* Line 934: the test of the code.
ExecResultIsError(execResult) == execResult # RAIL_EXEC_S_OK

\* xf_rail_server_execute_result (lines 924-945).  A code without a name
\* reads past the end of error_code_names for the log line: the read gives
\* some pointer that the formatting follows, or the process dies.
xf_rail_server_execute_result(execResult, rawResult, ub) ==
    /\ Running
    /\ ub = "crash" => (ExecResultIsError(execResult) /\ execResult >= NumErrorCodeNames)
    /\ LET op == [name |-> "xf_rail_server_execute_result", windowId |-> 0,
                  fieldFlags |-> {},
                  ws |-> [execResult |-> execResult, rawResult |-> rawResult],
                  fail |-> "none", win |-> NULL]
       IN  IF ExecResultIsError(execResult)
           THEN IF ub = "crash"
                THEN Crash(op)
                ELSE /\ Done(op, "CHANNEL_RC_OK",
                             <<Call("freerdp_abort_connect_context")>>)
                     /\ UNCHANGED <<railWindows, heap, railIconCache, crashed>>
           ELSE LET m == xf_rail_enable_remoteapp_mode
                IN  /\ Finish(op, "CHANNEL_RC_OK", m.fx)
                    /\ remote_app' = m.remote_app
                    /\ UNCHANGED <<railWindows, heap, railIconCache, crashed>>

\* xf_rail_non_monitored_desktop (lines 890-896).
xf_rail_non_monitored_desktop ==
    /\ Running
    /\ LET op == [name |-> "xf_rail_non_monitored_desktop", windowId |-> 0,
                  fieldFlags |-> {}, ws |-> NoOrderState, fail |-> "none",
                  win |-> NULL]
           m == xf_rail_disable_remoteapp_mode
       IN  /\ Finish(op, "TRUE", m.fx)
           /\ remote_app' = m.remote_app
           /\ UNCHANGED <<railWindows, heap, railIconCache, crashed>>

(***************************************************************************)
(* The orders the remote peer sends.  Each WINDOW_STATE_ORDER carries a    *)
(* value for every field; fieldFlags says which of them count.             *)
(***************************************************************************)
OrderState1 ==
    [ windowOffsetX |-> 50, windowOffsetY |-> 50,
      windowWidth |-> 100, windowHeight |-> 100,
      resizeMarginLeft |-> 1, resizeMarginRight |-> 2,
      resizeMarginTop |-> 3, resizeMarginBottom |-> 4,
      ownerWindowId |-> 2, style |-> 1, extendedStyle |-> 2,
      showState |-> 5,
      titleInfo |-> [length |-> 4, string |-> <<65, 233>>],
      clientOffsetX |-> 52, clientOffsetY |-> 55,
      clientAreaWidth |-> 96, clientAreaHeight |-> 90,
      windowClientDeltaX |-> 2, windowClientDeltaY |-> 5,
      numWindowRects |-> 1, windowRects |-> <<Rect(0, 0, 100, 100)>>,
      visibleOffsetX |-> 50, visibleOffsetY |-> 51,
      numVisibilityRects |-> 2,
      visibilityRects |-> <<Rect(0, 0, 100, 50), Rect(0, 50, 60, 100)>> ]

OrderState2 ==
    [ windowOffsetX |-> 10, windowOffsetY |-> 20,
      windowWidth |-> 30, windowHeight |-> 40,
      resizeMarginLeft |-> 5, resizeMarginRight |-> 6,
      resizeMarginTop |-> 7, resizeMarginBottom |-> 8,
      ownerWindowId |-> 1, style |-> 3, extendedStyle |-> 4,
      showState |-> WINDOW_SHOW_MINIMIZED,
      titleInfo |-> [length |-> 0, string |-> <<>>],
      clientOffsetX |-> 12, clientOffsetY |-> 24,
      clientAreaWidth |-> 26, clientAreaHeight |-> 30,
      windowClientDeltaX |-> 2, windowClientDeltaY |-> 4,
      numWindowRects |-> 0, windowRects |-> <<>>,
      visibleOffsetX |-> 10, visibleOffsetY |-> 20,
      numVisibilityRects |-> 1, visibilityRects |-> <<Rect(0, 0, 30, 40)>> ]

\* A maximized window whose title is a surrogate without its pair.
OrderState3 ==
    [ windowOffsetX |-> 0, windowOffsetY |-> 0,
      windowWidth |-> 200, windowHeight |-> 150,
      resizeMarginLeft |-> 9, resizeMarginRight |-> 9,
      resizeMarginTop |-> 9, resizeMarginBottom |-> 9,
      ownerWindowId |-> 0, style |-> 5, extendedStyle |-> 6,
      showState |-> WINDOW_SHOW_MAXIMIZED,
      titleInfo |-> [length |-> 2, string |-> <<55296>>],
      clientOffsetX |-> 0, clientOffsetY |-> 0,
      clientAreaWidth |-> 200, clientAreaHeight |-> 150,
      windowClientDeltaX |-> 0, windowClientDeltaY |-> 0,
      numWindowRects |-> 2,
      windowRects |-> <<Rect(0, 0, 200, 100), Rect(0, 100, 200, 150)>>,
      visibleOffsetX |-> 0, visibleOffsetY |-> 0,
      numVisibilityRects |-> 0, visibilityRects |-> <<>> ]

\* A minimized window whose title is a surrogate without its pair.
OrderState4 ==
    [OrderState2 EXCEPT !.titleInfo = [length |-> 2, string |-> <<56320>>]]

OrderStates == {OrderState1, OrderState2, OrderState3}

Order(m, ws, fail) == [fieldFlags |-> m, ws |-> ws, fail |-> fail]

\* Orders that run to the end: one field of either of two orders, no field,
\* every field, a title that cannot be converted, a maximized window.
FieldOrders ==
    {Order({b}, OrderState2, "none") : b \in FieldBits}
    \cup {Order({}, OrderState1, "none")}
    \cup {Order(FieldBits, ws, "none") : ws \in OrderStates}
    \cup {Order({"TITLE"}, OrderState3, "none"), Order({"SHOW"}, OrderState3, "none"),
          Order({"SHOW", "TITLE"}, OrderState4, "none")}

\* Orders during which an allocation fails.
FailingOrders ==
    { Order({"TITLE"}, OrderState1, "title"),
      Order({"WND_RECTS"}, OrderState1, "windowRects"),
      Order({"VISIBILITY"}, OrderState1, "visibilityRects"),
      Order(FieldBits, OrderState2, "title"),
      Order(FieldBits, OrderState2, "visibilityRects"),
      Order(FieldBits, OrderState1, "windowRects") }

\* New-window orders that fail while the window is built.
AddFailures ==
    {Order({}, OrderState1, f) :
        f \in {"calloc", "xf_AppWindowCreate", "HashTable_Insert", "title_new"}}

UbChoices == {"stale", "crash"}

(***************************************************************************)
(* The session: the state after xf_rail_init with the default icon cache   *)
(* (3 caches of 12 entries), then the orders of the remote peer.           *)
(***************************************************************************)
NoOp == [name |-> "none", windowId |-> 0, fieldFlags |-> {}, ws |-> NoOrderState,
         fail |-> "none", win |-> NULL]

Init ==
    /\ railWindows = Ptr(<<>>)
    /\ heap = <<>>
    /\ railIconCache = RailIconCache_New(3, 12)
    /\ ret = "none"
    /\ effects = <<>>
    /\ lastOp = NoOp
    /\ crashed = FALSE
    /\ nOps = 0
    /\ repeats = 0
    /\ remote_app = FALSE

WindowOrder(ids, orders) ==
    \E id \in ids, new \in BOOLEAN, o \in orders, ub \in UbChoices :
        xf_rail_window_common(id, o.fieldFlags \cup NewBit(new), o.ws, o.fail, ub)

DeleteOrder(ids) ==
    \E id \in ids, ub \in UbChoices : xf_rail_window_delete(id, ub)

\* The channel attaches with the icon-cache shape of the settings.  An
\* allocation may fail for lack of memory ("HashTable_New",
\* "RailIconCache_New"); calloc of zero entries may return NULL where memory
\* is plentiful ("calloc(0)").
Attach(shapes, fails) ==
    \E s \in shapes, fail \in fails : xf_rail_init(s[1], s[2], fail)

Detach == \E ub \in UbChoices : xf_rail_uninit(ub)

CachedIconOrder(ids, cacheIds, cacheEntries) ==
    \E id \in ids, new \in BOOLEAN, cacheId \in cacheIds,
       cacheEntry \in cacheEntries, ub \in UbChoices :
        xf_rail_window_cached_icon(id, new, cacheId, cacheEntry, ub)

LocalMoveSizeOrder(ids, types, points) ==
    \E id \in ids, moveSizeType \in types, isMoveSizeStart \in BOOLEAN,
       p \in points, ub \in UbChoices :
        xf_rail_server_local_move_size(id, moveSizeType, isMoveSizeStart,
                                       p[1], p[2], ub)

EndLocalMove(ids, points) ==
    \E id \in ids, p \in points, ub \in UbChoices :
        xf_rail_end_local_move(id, p[1], p[2], ub)

Paint(rects) ==
    \E rect \in rects, ub \in UbChoices : xf_rail_paint(rect, ub)

\* The state before xf_rail_init: no table, no cache.
InitDetached ==
    /\ railWindows = NullPtr
    /\ heap = <<>>
    /\ railIconCache = NullCache
    /\ ret = "none"
    /\ effects = <<>>
    /\ lastOp = NoOp
    /\ crashed = FALSE
    /\ nOps = 0
    /\ repeats = 0
    /\ remote_app = FALSE

(***************************************************************************)
(* Spec: the orders on one window, every field and every failure.          *)
(***************************************************************************)
Next ==
    /\ nOps < MaxOps
    /\ \/ WindowOrder({1}, FieldOrders \cup FailingOrders \cup AddFailures)
       \/ DeleteOrder({1})

Spec == Init /\ [][Next]_vars

(***************************************************************************)
(* CacheSpec: the channel attaches with an icon cache of any small shape,  *)
(* a window is created and cached-icon orders name a slot of the cache.    *)
(***************************************************************************)
MaxCaches == 2
MaxCacheEntries == 2
MaxCacheOps == 3

CacheShapes == (0..MaxCaches) \X (0..MaxCacheEntries)

\* UINT8 cache ids and UINT16 cache entries around the edges of the grid.
CacheIds == (0..(MaxCaches + 1)) \cup {254, ScratchCacheId}
CacheEntries == (0..(MaxCacheEntries + 1)) \cup {65535}

NextCache ==
    /\ nOps < MaxCacheOps
    /\ \/ Attach(CacheShapes, {"none", "calloc(0)"})
       \/ WindowOrder({1}, {Order({}, OrderState1, "none")})
       \/ CachedIconOrder({1}, CacheIds, CacheEntries)
       \/ Detach

CacheSpec == InitDetached /\ [][NextCache]_vars

(***************************************************************************)
(* MoveSpec: two windows, the orders that start and end a local move in    *)
(* every moveSizeType, and the end of the move on the local side.          *)
(***************************************************************************)
MaxMoveOps == 4

NextMove ==
    /\ nOps < MaxMoveOps
    /\ \/ WindowOrder({1, 2}, {Order({}, OrderState1, "none")})
       \/ LocalMoveSizeOrder({1, 2}, MoveSizeTypes, {<<10, 10>>})
       \/ EndLocalMove({1, 2}, {<<60, 70>>})

MoveSpec == Init /\ [][NextMove]_vars

\* The windows that are in a local move.
WindowsInMove == {h \in DOMAIN heap : InMove(heap[h])}

\* The last handler was an order to start a local move of a window the
\* registry holds.
StartRequested ==
    /\ lastOp.name = "xf_rail_server_local_move_size"
    /\ lastOp.ws.isMoveSizeStart
    /\ lastOp.win # NULL

\* C3: at most one window is Active or Terminating; a start for a window
\* while another window is in a move is rejected and leaves the window
\* NotActive, and a start repeated for the window that is Active is
\* rejected as well.
C3_OneMoveAtATime ==
    /\ Cardinality(WindowsInMove) <= 1
    /\ (StartRequested /\ WindowsInMove \ {lastOp.win} # {})
       => (ret # "CHANNEL_RC_OK" /\ lastOp.win \notin WindowsInMove)
    /\ (StartRequested /\ repeats >= 2 /\ lastOp.win \in WindowsInMove)
       => ret # "CHANNEL_RC_OK"

\* The part of C3 that the window state carries: one window in a move at
\* most, and a start that finds another window in a move changes nothing.
MoveExclusion ==
    /\ Cardinality(WindowsInMove) <= 1
    /\ (StartRequested /\ WindowsInMove \ {lastOp.win} # {})
       => lastOp.win \notin WindowsInMove

\* C4: once the order that ends the local move of a window has been
\* handled, the window is NotActive, whatever the moveSizeType.
C4_EndReturnsToIdle ==
    (/\ lastOp.name = "xf_rail_server_local_move_size"
     /\ ~lastOp.ws.isMoveSizeStart
     /\ lastOp.win \in DOMAIN heap)
    => heap[lastOp.win].local_move.state = "LMS_NOT_ACTIVE"

\* C14: a start order of a keyboard type for a window, while no window is
\* in a move, makes no call that begins a drag but leaves the window Active
\* in the keyboard direction of the type.
C14_KeyboardStartRecordsActive ==
    (/\ StartRequested
     /\ lastOp.ws.moveSizeType \in KeyboardTypes
     /\ ~crashed
     /\ lastOp.win \in DOMAIN heap
     /\ ~heap[lastOp.win].freed
     /\ WindowsInMove \ {lastOp.win} = {})
    => /\ effects = <<>>
       /\ heap[lastOp.win].local_move.state = "LMS_ACTIVE"
       /\ heap[lastOp.win].local_move.direction = DirectionOf(lastOp.ws.moveSizeType)

\* The keyboard types make no call at all, at the start and at the end of a
\* move: the part of C14 that the code does.
KeyboardOrderMakesNoCall ==
    (/\ lastOp.name = "xf_rail_server_local_move_size"
     /\ lastOp.ws.moveSizeType \in KeyboardTypes)
    => effects = <<>>

(***************************************************************************)
(* RegistrySpec: the channel attaches and detaches; create, update, delete *)
(* and cached-icon orders name two window ids; titles may fail to convert  *)
(* and allocations may fail.                                               *)
(***************************************************************************)
MaxRegistryOps == 4

RegistryOrders ==
    { Order({}, OrderState1, "none"),
      Order({"TITLE"}, OrderState2, "none"),
      Order({"TITLE"}, OrderState3, "none") }
    \cup AddFailures

NextRegistry ==
    /\ nOps < MaxRegistryOps
    /\ \/ Attach({<<3, 12>>}, {"none", "HashTable_New", "RailIconCache_New"})
       \/ WindowOrder({1, 2}, RegistryOrders)
       \/ DeleteOrder({1, 2})
       \/ CachedIconOrder({1, 2}, {0, ScratchCacheId}, {0})
       \/ Detach

RegistrySpec == InitDetached /\ [][NextRegistry]_vars

\* C2: the registry holds one WindowState for each windowId it answers
\* for: every entry refers to an object that exists (it goes away only with
\* a delete order for its id or with the table), and no two entries refer
\* to the same object or carry the same windowId.
C2_OneStatePerWindowId ==
    /\ \A i \in 1..Len(Entries) :
          Entries[i] \in DOMAIN heap /\ ~heap[Entries[i]].freed
    /\ \A i, j \in 1..Len(Entries) :
          i # j => /\ Entries[i] # Entries[j]
                   /\ heap[Entries[i]].windowId # heap[Entries[j]].windowId

(***************************************************************************)
(* PaintSpec: up to two windows, on and off the screen's origin, and the   *)
(* repaint of a dirty rectangle.                                           *)
(***************************************************************************)
MaxPaintOps == 3

\* Windows at (50, 50) and (10, 20), one that starts left of and above the
\* screen, one far to the right, one without area.
PaintStates ==
    { OrderState1, OrderState2,
      [OrderState1 EXCEPT !.windowOffsetX = -20, !.windowOffsetY = -30],
      [OrderState1 EXCEPT !.windowOffsetX = 300],
      [OrderState2 EXCEPT !.windowWidth = 0] }

DirtyRects ==
    { Rect(0, 0, 100, 100), Rect(60, 60, 70, 70), Rect(150, 0, 200, 40),
      Rect(0, 0, 50, 50), Rect(5, 5, 5, 5) }

NextPaint ==
    /\ nOps < MaxPaintOps
    /\ \/ WindowOrder({1, 2}, {Order({}, ws, "none") : ws \in PaintStates})
       \/ Paint(DirtyRects)
       \/ Detach

PaintSpec == Init /\ [][NextPaint]_vars

\* The part of the dirty rectangle that lies on window w, on the screen.
DirtyOnWindow(w, dirty) ==
    Rect(MAX(MAX(w.x, 0), dirty.left), MAX(MAX(w.y, 0), dirty.top),
         MIN(MAX(w.x + w.width, 0), dirty.right),
         MIN(MAX(w.y + w.height, 0), dirty.bottom))

\* The redraws that the last handler made of window h: x, y, width, height.
RedrawsOf(h) ==
    {i \in 1..Len(effects) :
        effects[i].op = "xf_UpdateWindowArea" /\ effects[i].win = h}

C10_WitnessOutside ==
    /\ lastOp.name = "xf_rail_paint"
    /\ lastOp.ws = Rect(150, 0, 200, 40)
    /\ Registered # {}
    /\ effects = <<>>

\* The last handler was a cached-icon order for a window the registry
\* holds, so that it looked the icon up.
IconLookedUp ==
    /\ lastOp.name = "xf_rail_window_cached_icon"
    /\ lastOp.win # NULL

\* The handler found nothing at the slot: it returned FALSE and set no icon.
LookupFailed == ret = "FALSE" /\ effects = <<>>

\* The handler set the icon of the scratch entry.
LookupGaveScratch ==
    /\ ret = "TRUE"
    /\ Len(effects) = 1
    /\ effects[1].op = "xf_rail_set_window_icon"
    /\ effects[1].args[2] = 1

\* C6: a lookup with cacheId 0xFF gives the scratch entry, whatever the
\* cacheEntry and whatever the shape of the cache the channel attached
\* with, zero caches and zero entries included.
C6_ScratchForEveryShape ==
    (IconLookedUp /\ lastOp.ws.cacheId = ScratchCacheId) => LookupGaveScratch

C8_OutOfRangeFails ==
    (/\ IconLookedUp
     /\ ~railIconCache.null
     /\ lastOp.ws.cacheId # ScratchCacheId
     /\ \/ lastOp.ws.cacheId >= railIconCache.numCaches
        \/ lastOp.ws.cacheEntry >= railIconCache.numCacheEntries)
    => LookupFailed

\* A lookup with a cacheId in range and cacheEntry = numCacheEntries failed.
C8_Witness ==
    /\ IconLookedUp
    /\ railIconCache.numCaches = 2
    /\ railIconCache.numCacheEntries = 1
    /\ lastOp.ws.cacheId = 0
    /\ lastOp.ws.cacheEntry = 1
    /\ LookupFailed

(***************************************************************************)
(* The fields of the xfAppWindow that each bit of fieldFlags governs.      *)
(***************************************************************************)
FieldsOf(w, b) ==
    CASE b = "WND_OFFSET" -> <<w.windowOffsetX, w.windowOffsetY>>
      [] b = "WND_SIZE" -> <<w.windowWidth, w.windowHeight>>
      [] b = "RESIZE_MARGIN_X" -> <<w.resizeMarginLeft, w.resizeMarginRight>>
      [] b = "RESIZE_MARGIN_Y" -> <<w.resizeMarginTop, w.resizeMarginBottom>>
      [] b = "OWNER" -> <<w.ownerWindowId>>
      [] b = "STYLE" -> <<w.dwStyle, w.dwExStyle>>
      [] b = "SHOW" -> <<w.showState>>
      [] b = "TITLE" -> <<w.title>>
      [] b = "CLIENT_AREA_OFFSET" -> <<w.clientOffsetX, w.clientOffsetY>>
      [] b = "CLIENT_AREA_SIZE" -> <<w.clientAreaWidth, w.clientAreaHeight>>
      [] b = "WND_CLIENT_DELTA" -> <<w.windowClientDeltaX, w.windowClientDeltaY>>
      [] b = "WND_RECTS" -> <<w.numWindowRects, w.windowRects>>
      [] b = "VIS_OFFSET" -> <<w.visibleOffsetX, w.visibleOffsetY>>
      [] b = "VISIBILITY" -> <<w.numVisibilityRects, w.visibilityRects>>

\* The step is a window order that reached a window and did not crash.
OrderApplied ==
    /\ lastOp'.name = "xf_rail_window_common"
    /\ nOps' = nOps + 1
    /\ ~crashed'
    /\ lastOp'.win # NULL
    /\ lastOp'.win \in DOMAIN heap'

\* The window as the order found it: the registered object, or the zeroed
\* object that xf_rail_add_window has just allocated.
WindowBefore ==
    IF xf_rail_get_window(lastOp'.windowId) = {NULL}
    THEN ZeroWindow
    ELSE heap[lastOp'.win]

\* The bits that an order with the new-window bit writes whatever its mask
\* says (lines 347-383).
WrittenByCreate(flags) ==
    IF STATE_NEW \in flags THEN {"STYLE", "TITLE"} ELSE {}

\* C1 as stated: a window order (create or update) leaves the fields of
\* every bit absent from its mask as they were.
C1_FrameOfEveryOrder ==
    [][OrderApplied =>
          \A b \in FieldBits \ lastOp'.fieldFlags :
              FieldsOf(heap'[lastOp'.win], b) = FieldsOf(WindowBefore, b)]_vars

\* C1: a window order leaves the fields of every bit absent from its mask
\* as they were, except that an order with the new-window bit writes the
\* style, the extended style and the title whatever the mask says.
C1_FrameOfAbsentFields ==
    [][OrderApplied =>
          \A b \in (FieldBits \ lastOp'.fieldFlags)
                       \ WrittenByCreate(lastOp'.fieldFlags) :
              FieldsOf(heap'[lastOp'.win], b) = FieldsOf(WindowBefore, b)]_vars

\* The last handler was a window update (no new-window bit) that returned
\* TRUE for a window the registry holds.
UpdateApplied ==
    /\ lastOp.name = "xf_rail_window_common"
    /\ STATE_NEW \notin lastOp.fieldFlags
    /\ ret = "TRUE"
    /\ lastOp.win \in DOMAIN heap

\* The calls that move, redraw or reshape the local window.
GeometryCalls ==
    {"xf_MoveWindow", "xf_UpdateWindowArea", "xf_SetWindowVisibilityRects"}

\* The value the order carries for the fields that bit b governs.
OrderFieldsOf(ws, b) ==
    CASE b = "WND_OFFSET" -> <<ws.windowOffsetX, ws.windowOffsetY>>
      [] b = "WND_SIZE" -> <<ws.windowWidth, ws.windowHeight>>
      [] b = "CLIENT_AREA_OFFSET" -> <<ws.clientOffsetX, ws.clientOffsetY>>
      [] b = "CLIENT_AREA_SIZE" -> <<ws.clientAreaWidth, ws.clientAreaHeight>>
      [] b = "WND_CLIENT_DELTA" -> <<ws.windowClientDeltaX, ws.windowClientDeltaY>>
      [] b = "VIS_OFFSET" -> <<ws.visibleOffsetX, ws.visibleOffsetY>>
      [] b = "VISIBILITY" ->
             <<ws.numVisibilityRects,
               IF ws.numVisibilityRects = 0 THEN NullPtr
               ELSE Ptr(SubSeq(ws.visibilityRects, 1, ws.numVisibilityRects))>>

\* C5: an update whose mask intersects the geometry bits, applied to a
\* window whose showState is minimized (set earlier or by this order), makes
\* no move, redraw or visibility-rectangles call, and the geometry fields
\* of the mask hold the values of the order.
C5_MinimizedSuppressesGeometry ==
    (/\ UpdateApplied
     /\ lastOp.fieldFlags \cap GeometryBits # {}
     /\ heap[lastOp.win].showState = WINDOW_SHOW_MINIMIZED)
    => /\ \A i \in 1..Len(effects) : effects[i].op \notin GeometryCalls
       /\ \A b \in lastOp.fieldFlags \cap GeometryBits :
             FieldsOf(heap[lastOp.win], b) = OrderFieldsOf(lastOp.ws, b)

\* C9: an update applied a second time in a row, the same order to the
\* same window, leaves the xfAppWindow as the first application left it.
C9_UpdateTwice ==
    [][(/\ UpdateApplied
        /\ OrderApplied
        /\ ret' = "TRUE"
        /\ lastOp' = lastOp)
       => heap'[lastOp.win] = heap[lastOp.win]]_vars

\* The same update of the visibility rectangles ran twice on a window that
\* held other rectangles before; the list is the order's, once.
C9_Witness ==
    /\ UpdateApplied
    /\ repeats = 2
    /\ lastOp.fieldFlags = {"VISIBILITY"}
    /\ heap[lastOp.win].numVisibilityRects = 1
    /\ heap[lastOp.win].visibilityRects = Ptr(lastOp.ws.visibilityRects)
    /\ heap[lastOp.win].numWindowRects = 1

\* An update of the size alone has been applied to a window whose other
\* fields an earlier order had filled in.
C1_Witness ==
    /\ lastOp.name = "xf_rail_window_common"
    /\ lastOp.fieldFlags = {"WND_SIZE"}
    /\ ret = "TRUE"
    /\ lastOp.win \in DOMAIN heap
    /\ heap[lastOp.win].windowWidth = lastOp.ws.windowWidth
    /\ heap[lastOp.win].windowOffsetX # 0
    /\ heap[lastOp.win].windowOffsetX # lastOp.ws.windowOffsetX
    /\ heap[lastOp.win].numVisibilityRects # lastOp.ws.numVisibilityRects

(***************************************************************************)
(* The title of a new window.                                              *)
(***************************************************************************)
\* The last handler was a window order with the new-window bit that left a
\* window behind: the object exists and was not destroyed.
CreateApplied ==
    /\ lastOp.name = "xf_rail_window_common"
    /\ STATE_NEW \in lastOp.fieldFlags
    /\ ~crashed
    /\ lastOp.win \in DOMAIN heap
    /\ ~heap[lastOp.win].freed

\* C11: after a create order without the TITLE bit the title of the window
\* is the placeholder "RdpRailWindow", and it is not the empty string.
C11_CreateWithoutTitle ==
    (CreateApplied /\ "TITLE" \notin lastOp.fieldFlags)
    => /\ heap[lastOp.win].title = Ptr(DefaultTitle)
       /\ heap[lastOp.win].title # Ptr(<<>>)

\* A create order with no field at all built a window and returned TRUE.
C11_Witness ==
    /\ CreateApplied
    /\ lastOp.fieldFlags = {STATE_NEW}
    /\ ret = "TRUE"
    /\ heap[lastOp.win].title = Ptr(DefaultTitle)

\* C12: a create order with the TITLE bit and a title of length zero, during
\* which no allocation fails, returns TRUE and leaves the empty string as
\* the title, which is not the placeholder.
C12_CreateWithEmptyTitle ==
    (/\ CreateApplied
     /\ "TITLE" \in lastOp.fieldFlags
     /\ lastOp.ws.titleInfo.length = 0
     /\ lastOp.fail = "none")
    => /\ ret = "TRUE"
       /\ heap[lastOp.win].title = Ptr(<<>>)
       /\ heap[lastOp.win].title # Ptr(DefaultTitle)

\* A create order with the TITLE bit alone and an empty payload was applied.
C12_Witness ==
    /\ CreateApplied
    /\ lastOp.fieldFlags = {STATE_NEW, "TITLE"}
    /\ lastOp.ws.titleInfo.length = 0
    /\ ret = "TRUE"
    /\ heap[lastOp.win].title = Ptr(<<>>)

(***************************************************************************)
(* ExecSpec: results of the remote execution, of every code with a name,   *)
(* of one without and of the largest UINT16, and the order that the        *)
(* desktop is no longer monitored.                                         *)
(***************************************************************************)
MaxExecOps == 4

ExecResults == 0..NumErrorCodeNames \cup {65535}

RawResults == {0, 5}

ExecResult(codes, raws) ==
    \E execResult \in codes, rawResult \in raws, ub \in UbChoices :
        xf_rail_server_execute_result(execResult, rawResult, ub)

NonMonitoredDesktop == xf_rail_non_monitored_desktop

NextExec ==
    /\ nOps < MaxExecOps
    /\ \/ ExecResult(ExecResults, RawResults)
       \/ NonMonitoredDesktop

ExecSpec == InitDetached /\ [][NextExec]_vars

\* The last handler was the delivery of an exec result that it survived.
ExecDelivered ==
    /\ lastOp.name = "xf_rail_server_execute_result"
    /\ ~crashed

Aborted == \E i \in 1..Len(effects) : effects[i].op = "freerdp_abort_connect_context"

\* C13: on the delivery of an exec result with one of the seven codes the
\* connection is aborted exactly when the code is not RAIL_EXEC_S_OK; with
\* RAIL_EXEC_S_OK the remote-app mode is on afterwards.
C13_AbortIffNotOk ==
    [][(ExecDelivered' /\ nOps' = nOps + 1
        /\ lastOp'.ws.execResult \in 0..(NumErrorCodeNames - 1))
       => /\ Aborted' <=> lastOp'.ws.execResult # RAIL_EXEC_S_OK
          /\ lastOp'.ws.execResult = RAIL_EXEC_S_OK => remote_app'
          /\ lastOp'.ws.execResult # RAIL_EXEC_S_OK => remote_app' = remote_app]_vars

\* RAIL_EXEC_E_SESSION_LOCKED was delivered after the remote-app mode had
\* been switched on and off again: the connection is aborted.
C13_Witness ==
    /\ ExecDelivered
    /\ lastOp.ws.execResult = 6
    /\ Aborted
    /\ nOps = 3
    /\ ~remote_app

\* RAIL_EXEC_S_OK was delivered: no abort, remote-app mode on.
C13_WitnessOk ==
    /\ ExecDelivered
    /\ lastOp.ws.execResult = RAIL_EXEC_S_OK
    /\ ~Aborted
    /\ remote_app

(***************************************************************************)
(* IconSpec: one window that is created and deleted, and icon and          *)
(* cached-icon orders for it and for a window id that was never created;   *)
(* icons of one and two pixels and of none, icons that cannot be decoded,  *)
(* allocations that fail.                                                  *)
(***************************************************************************)
MaxIconOps == 4

\* The pixels are <<0, 0, 255>>, red, and <<255, 0, 0>>, blue.
Icons ==
    { IconInfo(0, 0, 1, 1, 24, <<<<0, 0, 255>>>>),
      IconInfo(0, 0, 2, 1, 24, <<<<0, 0, 255>>, <<255, 0, 0>>>>),
      IconInfo(ScratchCacheId, 0, 1, 1, 24, <<<<255, 0, 0>>>>),
      IconInfo(ScratchCacheId, 0, 1, 2, 24, <<<<255, 0, 0>>, <<0, 0, 255>>>>),
      IconInfo(0, 1, 1, 1, 24, <<<<255, 0, 0>>>>),
      IconInfo(3, 0, 1, 1, 24, <<<<0, 0, 255>>>>),
      IconInfo(0, 0, 2, 2, 24, <<<<0, 0, 255>>>>),
      IconInfo(0, 0, 1, 1, 16, <<<<0, 0, 255>>>>),
      IconInfo(0, 0, 0, 0, 24, <<>>) }

IconOrder(ids, icons, fails) ==
    \E id \in ids, new \in BOOLEAN, iconInfo \in icons, fail \in fails,
       ub \in UbChoices :
        xf_rail_window_icon(id, new, iconInfo, fail, ub)

NextIcon ==
    /\ nOps < MaxIconOps
    /\ \/ WindowOrder({1}, {Order({}, OrderState1, "none")})
       \/ DeleteOrder({1})
       \/ IconOrder({1, 2}, Icons, IconFails)
       \/ CachedIconOrder({1, 2}, {0, ScratchCacheId}, {0})

IconSpec == Init /\ [][NextIcon]_vars

\* The step is an icon order that found its window and a slot of the cache
\* for its icon.
IconStored ==
    /\ lastOp'.name = "xf_rail_window_icon"
    /\ nOps' = nOps + 1
    /\ lastOp'.win # NULL
    /\ ~railIconCache.null
    /\ ~RailIconCache_Lookup(railIconCache, lastOp'.ws.cacheId,
                             lastOp'.ws.cacheEntry).null

\* The slot of the cache that the icon order of the step names, after it.
SlotAfter ==
    IconAt(railIconCache', RailIconCache_Lookup(railIconCache, lastOp'.ws.cacheId,
                                               lastOp'.ws.cacheEntry))

\* C15: an icon order that fails to decode or to allocate leaves every slot
\* of the cache, pixels and length, as it was; one that succeeds leaves
\* 2 + width * height words in its slot, the width and the height first.
C15_StoreAllOrNothing ==
    [][IconStored =>
          /\ ret' = "FALSE" => railIconCache' = railIconCache
          /\ ret' = "TRUE" =>
                /\ SlotAfter.length = 2 + lastOp'.ws.width * lastOp'.ws.height
                /\ Len(SlotAfter.data.data) = SlotAfter.length
                /\ SlotAfter.data.data[1] = lastOp'.ws.width
                /\ SlotAfter.data.data[2] = lastOp'.ws.height]_vars

\* The slot (0, 0) holds the icon of two pixels that an earlier order
\* stored, after an order for the same slot failed to decode its icon.
C15_Witness ==
    /\ lastOp.name = "xf_rail_window_icon"
    /\ lastOp.win # NULL
    /\ ret = "FALSE"
    /\ lastOp.ws.cacheId = 0 /\ lastOp.ws.cacheEntry = 0
    /\ lastOp.ws.width = 2 /\ lastOp.ws.height = 2
    /\ railIconCache.entries[0].length = 4
    /\ railIconCache.entries[0].data.data[1] = 2
    /\ railIconCache.entries[0].data.data[2] = 1

\* No entry of the table has the key id.
Absent(id) ==
    railWindows.null \/ \A i \in 1..Len(Entries) : heap[Entries[i]].windowId # id

\* C16: an icon order or a cached-icon order for a window id that the
\* registry does not hold returns TRUE, makes no call, and leaves the
\* windows, the registry and the icon cache as they were.
C16_IconForAbsentWindow ==
    [][(/\ lastOp'.name \in {"xf_rail_window_icon", "xf_rail_window_cached_icon"}
        /\ nOps' = nOps + 1
        /\ Absent(lastOp'.windowId))
       => /\ ret' = "TRUE"
          /\ effects' = <<>>
          /\ heap' = heap
          /\ railWindows' = railWindows
          /\ railIconCache' = railIconCache
          /\ ~crashed']_vars

\* An icon order named window 2 while the registry held window 1 alone.
C16_Witness ==
    /\ lastOp.name = "xf_rail_window_icon"
    /\ lastOp.windowId = 2
    /\ Absent(2)
    /\ ~Absent(1)
    /\ ret = "TRUE"
    /\ effects = <<>>

\* A cached-icon order named window 1 after window 1 had been deleted.
C16_WitnessDeleted ==
    /\ lastOp.name = "xf_rail_window_cached_icon"
    /\ lastOp.windowId = 1
    /\ Absent(1)
    /\ nOps = 3
    /\ ret = "TRUE"
    /\ effects = <<>>

(***************************************************************************)
(* SyncSpec: one window; the X server reports its local geometry and       *)
(* whether it is mapped, a local move starts in any direction and ends,    *)
(* the remote peer sends geometry and margins (one margin too large for an *)
(* INT16), and the window layer asks for the position to be adjusted.      *)
(***************************************************************************)
MaxSyncOps == 6

\* A left margin that no INT16 holds.
OrderState5 == [OrderState1 EXCEPT !.resizeMarginLeft = 40000]

SyncOrders ==
    { Order({}, OrderState1, "none"),
      Order({"WND_OFFSET", "WND_SIZE", "RESIZE_MARGIN_X", "RESIZE_MARGIN_Y"},
            OrderState1, "none"),
      Order({"RESIZE_MARGIN_X"}, OrderState5, "none") }

Geometries == {<<50, 50, 100, 100>>, <<60, 50, 100, 120>>}

LocalGeometry(ids, geometries) ==
    \E id \in ids, g \in geometries, mapped \in BOOLEAN :
        xf_event_LocalGeometry(id, g[1], g[2], g[3], g[4], mapped)

LocalMoveStart(ids, directions) ==
    \E id \in ids, direction \in directions : StartLocalMove(id, direction)

AdjustPosition(ids) ==
    \E id \in ids, ub \in UbChoices : xf_rail_adjust_position(id, ub)

NextSync ==
    /\ nOps < MaxSyncOps
    /\ \/ WindowOrder({1}, SyncOrders)
       \/ LocalGeometry({1}, Geometries)
       \/ LocalMoveStart({1}, {DirectionOf(t) : t \in MoveSizeTypes})
       \/ EndLocalMove({1}, {<<60, 70>>})
       \/ AdjustPosition({1})

SyncSpec == Init /\ [][NextSync]_vars

\* The step is a run of xf_rail_adjust_position.
Adjusted ==
    /\ lastOp'.name = "xf_rail_adjust_position"
    /\ nOps' = nOps + 1

\* The window that the run was for, as the run found it.
AdjustedWindow == heap[lastOp'.win]

\* The window-move orders among the calls of the step.
WindowMovesSent ==
    {i \in 1..Len(effects') : effects'[i].op = "ClientWindowMove"}

\* C17: xf_rail_adjust_position for a window that is Active or Terminating
\* sends no window-move order and changes no window, whatever the local and
\* the remote geometry are.
C17_NoAdjustDuringMove ==
    [][(Adjusted /\ AdjustedWindow.local_move.state
                        \in {"LMS_ACTIVE", "LMS_TERMINATING"})
       => /\ effects' = <<>>
          /\ heap' = heap
          /\ railWindows' = railWindows
          /\ ~crashed']_vars

\* The position of a mapped window in a move was adjusted while its local
\* geometry was not the remote one, and nothing was sent.
C17_Witness ==
    /\ lastOp.name = "xf_rail_adjust_position"
    /\ heap[lastOp.win].local_move.state = "LMS_ACTIVE"
    /\ heap[lastOp.win].is_mapped
    /\ OutOfSync(heap[lastOp.win])
    /\ effects = <<>>

\* The same for a window that is Terminating.
C17_WitnessTerminating ==
    /\ lastOp.name = "xf_rail_adjust_position"
    /\ heap[lastOp.win].local_move.state = "LMS_TERMINATING"
    /\ heap[lastOp.win].is_mapped
    /\ OutOfSync(heap[lastOp.win])
    /\ effects = <<>>

\* The window-move order of the claim for a window: left, top, right and
\* bottom with the margins added on the outside.
MarginInclusive(w) ==
    <<w.x - w.resizeMarginLeft, w.y - w.resizeMarginTop,
      w.x + w.width + w.resizeMarginRight,
      w.y + w.height + w.resizeMarginBottom>>

\* The local geometry differs from the remote one in some component.
GeometryDiffers(w) ==
    <<w.x, w.y, w.width, w.height>>
        # <<w.windowOffsetX, w.windowOffsetY, w.windowWidth, w.windowHeight>>

\* Exactly one window-move order was sent, it is the only call, and it
\* carries the margin-inclusive rectangle of the window.
SentOneMarginInclusive(w) ==
    /\ Len(effects') = 1
    /\ effects'[1].op = "ClientWindowMove"
    /\ effects'[1].win = lastOp'.win
    /\ effects'[1].args = MarginInclusive(w)

\* C18 as stated: for a window with no move active the run sends exactly
\* one window-move order with the margin-inclusive rectangle when the local
\* geometry differs from the remote one, and none when it does not.
C18_AdjustSyncsGeometry ==
    [][(Adjusted /\ AdjustedWindow.local_move.state = "LMS_NOT_ACTIVE")
       => IF GeometryDiffers(AdjustedWindow)
          THEN SentOneMarginInclusive(AdjustedWindow)
          ELSE effects' = <<>>]_vars

\* The margins and the four values of the order fit a signed 16-bit integer.
OrderFitsInt16(w) ==
    /\ \A m \in {w.resizeMarginLeft, w.resizeMarginRight,
                 w.resizeMarginTop, w.resizeMarginBottom} : FitsInt16(m)
    /\ \A i \in 1..4 : FitsInt16(MarginInclusive(w)[i])

\* C18: for a window with no move active the run sends exactly one
\* window-move order with the margin-inclusive rectangle when the window is
\* mapped, its local geometry differs from the remote one and the margins
\* and the rectangle fit a signed 16-bit integer; it sends none when the
\* geometry does not differ or the window is not mapped; no window changes.
C18_AdjustSyncsMappedWindow ==
    [][(Adjusted /\ AdjustedWindow.local_move.state = "LMS_NOT_ACTIVE")
       => /\ (AdjustedWindow.is_mapped /\ GeometryDiffers(AdjustedWindow)
              /\ OrderFitsInt16(AdjustedWindow))
             => (SentOneMarginInclusive(AdjustedWindow) /\ ~crashed')
          /\ (~AdjustedWindow.is_mapped \/ ~GeometryDiffers(AdjustedWindow))
             => (effects' = <<>> /\ ~crashed')
          /\ heap' = heap]_vars

\* A mapped window with margins, moved and resized on the local side, was
\* adjusted: the order (59, 47, 162, 174) was sent.
C18_Witness ==
    /\ lastOp.name = "xf_rail_adjust_position"
    /\ heap[lastOp.win].is_mapped
    /\ heap[lastOp.win].local_move.state = "LMS_NOT_ACTIVE"
    /\ heap[lastOp.win].resizeMarginLeft = 1
    /\ Len(effects) = 1
    /\ effects[1].op = "ClientWindowMove"
    /\ effects[1].args = <<59, 47, 162, 174>>

\* A mapped window in sync was adjusted: nothing was sent.
C18_WitnessInSync ==
    /\ lastOp.name = "xf_rail_adjust_position"
    /\ heap[lastOp.win].is_mapped
    /\ heap[lastOp.win].local_move.state = "LMS_NOT_ACTIVE"
    /\ ~OutOfSync(heap[lastOp.win])
    /\ effects = <<>>

\* The step is a run of xf_rail_end_local_move that came to its end.
Ended ==
    /\ lastOp'.name = "xf_rail_end_local_move"
    /\ nOps' = nOps + 1
    /\ ~crashed'

\* The calls of the step that have the name given.
CallsOf(name) == {i \in 1..Len(effects') : effects'[i].op = name}

\* C19: the end of a local move sends, for a window whose recorded
\* direction is one of the two keyboard directions, one window-move order
\* and no button event, and for any other direction one release of button 1
\* at the position of the pointer and no window-move order.
C19_EndSendsOneOfTwo ==
    [][Ended =>
          IF heap[lastOp'.win].local_move.direction
                 \in {"NET_WM_MOVERESIZE_MOVE_KEYBOARD",
                      "NET_WM_MOVERESIZE_SIZE_KEYBOARD"}
          THEN /\ Cardinality(CallsOf("ClientWindowMove")) = 1
               /\ CallsOf("freerdp_client_send_button_event") = {}
               /\ Len(effects') = 1
          ELSE /\ Cardinality(CallsOf("freerdp_client_send_button_event")) = 1
               /\ CallsOf("ClientWindowMove") = {}
               /\ Len(effects') = 1
               /\ effects'[1].args
                      = <<FALSE, "PTR_FLAGS_BUTTON1", lastOp'.ws.px, lastOp'.ws.py>>]_vars

\* A move in the direction keyboard-size ended: one window-move order.
C19_Witness ==
    /\ lastOp.name = "xf_rail_end_local_move"
    /\ ~crashed
    /\ heap[lastOp.win].local_move.direction = "NET_WM_MOVERESIZE_SIZE_KEYBOARD"
    /\ Len(effects) = 1
    /\ effects[1].op = "ClientWindowMove"

\* A move in the direction size-bottom-right ended: one button release.
C19_WitnessPointer ==
    /\ lastOp.name = "xf_rail_end_local_move"
    /\ heap[lastOp.win].local_move.direction = "NET_WM_MOVERESIZE_SIZE_BOTTOMRIGHT"
    /\ Len(effects) = 1
    /\ effects[1].op = "freerdp_client_send_button_event"

\* The fields of an xfAppWindow other than the remote geometry and the
\* state of the local move.
OtherFields(w) ==
    [w EXCEPT !.windowOffsetX = 0, !.windowOffsetY = 0,
              !.windowWidth = 0, !.windowHeight = 0,
              !.local_move.state = "LMS_NOT_ACTIVE"]

\* C20: right after the end of a local move the remote geometry of the
\* window is its local geometry, and no other field of the window but the
\* state of the local move has changed, nor any other window.
C20_EndTakesLocalGeometry ==
    [][Ended =>
          LET w == heap'[lastOp'.win]
          IN  /\ w.windowOffsetX = w.x
              /\ w.windowOffsetY = w.y
              /\ w.windowWidth = w.width
              /\ w.windowHeight = w.height
              /\ OtherFields(w) = OtherFields(heap[lastOp'.win])
              /\ \A h \in DOMAIN heap : h # lastOp'.win => heap'[h] = heap[h]
              /\ DOMAIN heap' = DOMAIN heap]_vars

\* A window whose local geometry had left the remote one behind ended its
\* move: the remote geometry is (60, 50, 100, 120) before any order of the
\* peer.
C20_Witness ==
    /\ lastOp.name = "xf_rail_end_local_move"
    /\ ~crashed
    /\ heap[lastOp.win].local_move.state = "LMS_TERMINATING"
    /\ heap[lastOp.win].windowOffsetX = 60
    /\ heap[lastOp.win].windowOffsetY = 50
    /\ heap[lastOp.win].windowWidth = 100
    /\ heap[lastOp.win].windowHeight = 120
    /\ heap[lastOp.win].x = 60

(***************************************************************************)
(* The calls of one window order, under Spec.                              *)
(***************************************************************************)
\* The last handler was a window order, create or update, that returned
\* TRUE for a live window.
WindowOrderApplied ==
    /\ lastOp.name = "xf_rail_window_common"
    /\ ret = "TRUE"
    /\ lastOp.win \in DOMAIN heap
    /\ ~heap[lastOp.win].freed

\* The positions in the calls of the last handler at which it called name.
CallsAt(name) == {i \in 1..Len(effects) : effects[i].op = name}

LocalEqualsRemote(w) ==
    /\ w.x = w.windowOffsetX /\ w.y = w.windowOffsetY
    /\ w.width = w.windowWidth /\ w.height = w.windowHeight

\* C21: a geometry-changing order on a window whose showState is not
\* minimized makes exactly one of the calls redraw(0, 0, windowWidth,
\* windowHeight) and move(windowOffsetX, windowOffsetY, windowWidth,
\* windowHeight), the redraw if and only if the local geometry equals the
\* remote geometry after the order, and one visibility-rectangles call with
\* the offsets visibleOffset - (clientOffset - windowClientDelta) of the
\* state after the order.
C21_OneOfMoveAndRedraw ==
    (/\ WindowOrderApplied
     /\ lastOp.fieldFlags \cap GeometryBits # {}
     /\ heap[lastOp.win].showState # WINDOW_SHOW_MINIMIZED)
    => LET w == heap[lastOp.win]
           moves == CallsAt("xf_MoveWindow")
           redraws == CallsAt("xf_UpdateWindowArea")
           shapes == CallsAt("xf_SetWindowVisibilityRects")
       IN  /\ Cardinality(moves \cup redraws) = 1
           /\ (redraws # {}) <=> LocalEqualsRemote(w)
           /\ \A i \in redraws :
                 effects[i].args = <<0, 0, w.windowWidth, w.windowHeight>>
           /\ \A i \in moves :
                 effects[i].args = <<w.windowOffsetX, w.windowOffsetY,
                                     w.windowWidth, w.windowHeight>>
           /\ Cardinality(shapes) = 1
           /\ \A i \in shapes :
                 /\ effects[i].args =
                        CastUInt32(w.visibleOffsetX
                                   - (w.clientOffsetX - w.windowClientDeltaX))
                        \o CastUInt32(w.visibleOffsetY
                                      - (w.clientOffsetY - w.windowClientDeltaY))
                        \o <<w.numVisibilityRects>>
                 /\ effects[i].rects = w.visibilityRects.data

\* The same with the test that the code makes: the state that xf_ShowWindow
\* applied last is not minimized.
GeometryEffectsWhenShown ==
    (/\ WindowOrderApplied
     /\ lastOp.fieldFlags \cap GeometryBits # {}
     /\ heap[lastOp.win].rail_state # WINDOW_SHOW_MINIMIZED)
    => /\ Cardinality(CallsAt("xf_MoveWindow") \cup CallsAt("xf_UpdateWindowArea")) = 1
       /\ (CallsAt("xf_UpdateWindowArea") # {}) <=> LocalEqualsRemote(heap[lastOp.win])
       /\ Cardinality(CallsAt("xf_SetWindowVisibilityRects")) = 1

\* The calls that move or redraw the local window.
MovesAndRedraws == CallsAt("xf_MoveWindow") \cup CallsAt("xf_UpdateWindowArea")

\* The call at position i of the last order passes what the window holds
\* after the order.
PassesStateAfter(i) ==
    LET w == heap[lastOp.win]
        e == effects[i]
    IN  CASE e.op = "xf_ShowWindow" -> e.args = <<w.showState>>
          [] e.op = "xf_SetWindowText" -> e.text = w.title.data
          [] e.op = "xf_MoveWindow" ->
                 e.args = <<w.windowOffsetX, w.windowOffsetY,
                            w.windowWidth, w.windowHeight>>
          [] e.op = "xf_UpdateWindowArea" ->
                 e.args = <<0, 0, w.windowWidth, w.windowHeight>>
          [] e.op = "xf_SetWindowVisibilityRects" ->
                 /\ e.rects = w.visibilityRects.data
                 /\ e.args[5] = w.numVisibilityRects
          [] e.op = "xf_SetWindowStyle" -> e.args = <<w.dwStyle, w.dwExStyle>>
          [] OTHER -> TRUE

\* C22: among the calls of one window order, the visibility-rectangles call
\* comes after the move or redraw of the same order and never before it,
\* and every call passes the fields as the order left them: the writes of
\* the order all come before its calls.
C22_ShapeAfterGeometry ==
    WindowOrderApplied
    => /\ \A i \in CallsAt("xf_SetWindowVisibilityRects") :
             /\ MovesAndRedraws # {}
             /\ \A j \in MovesAndRedraws : j < i
       /\ \A i \in 1..Len(effects) : PassesStateAfter(i)

\* An update of every field moved a window that held other values and then
\* shaped it with the rectangles of the order, the last field written.
C22_Witness ==
    /\ WindowOrderApplied
    /\ STATE_NEW \notin lastOp.fieldFlags
    /\ lastOp.fieldFlags = FieldBits
    /\ CallsAt("xf_MoveWindow") # {}
    /\ \E i \in CallsAt("xf_SetWindowVisibilityRects") :
          /\ effects[i].rects = lastOp.ws.visibilityRects
          /\ Len(effects[i].rects) = 2
    /\ repeats = 1

\* The calls that show the window, set its title, move, redraw, shape or
\* maximize it.
ShowTitleGeometryCalls ==
    {"xf_ShowWindow", "xf_SetWindowText", "xf_MoveWindow", "xf_UpdateWindowArea",
     "xf_SetWindowVisibilityRects", "xf_SendClientEvent"}

\* C23: a window order that returned TRUE calls xf_SetWindowStyle if and
\* only if its mask holds the STYLE bit or the new-window bit; the call is
\* made once, with the style and extended style the window holds after the
\* order, and after the show, title and geometry calls of the order.
C23_StyleCall ==
    WindowOrderApplied
    => LET styles == CallsAt("xf_SetWindowStyle")
           w == heap[lastOp.win]
       IN  /\ (styles # {}) <=> (lastOp.fieldFlags \cap {STATE_NEW, "STYLE"} # {})
           /\ Cardinality(styles) <= 1
           /\ \A i \in styles :
                 /\ effects[i].args = <<w.dwStyle, w.dwExStyle>>
                 /\ \A j \in 1..Len(effects) :
                       effects[j].op \in ShowTitleGeometryCalls => j < i

\* A new-window order whose mask holds the offset and not the style has
\* given the window the style of the order and applied it after the move.
C23_Witness ==
    /\ WindowOrderApplied
    /\ lastOp.fieldFlags = {STATE_NEW, "WND_OFFSET"}
    /\ MovesAndRedraws # {}
    /\ effects[Len(effects)].op = "xf_SetWindowStyle"
    /\ effects[Len(effects)].args = <<lastOp.ws.style, lastOp.ws.extendedStyle>>
    /\ lastOp.ws.style # 0

\* An update of every field has shown, titled, moved, shaped and styled the
\* window, in this order.
C23_WitnessUpdate ==
    /\ WindowOrderApplied
    /\ lastOp.fieldFlags = FieldBits
    /\ Len(effects) = 5
    /\ [i \in 1..5 |-> effects[i].op] =
           <<"xf_ShowWindow", "xf_SetWindowText", "xf_MoveWindow",
             "xf_SetWindowVisibilityRects", "xf_SetWindowStyle">>

\* The title of the order cannot be produced: a code unit of it cannot be
\* converted, or the allocation of the result fails.
TitleFails(ws, fail) ==
    \/ fail = "title"
    \/ /\ ws.titleInfo.length # 0
       /\ \E k \in 1..(ws.titleInfo.length \div 2) :
             ws.titleInfo.string[k] >= 55296 /\ ws.titleInfo.string[k] <= 57343

\* C24: an update order with the TITLE bit whose title cannot be produced
\* returns FALSE, leaves the title of the window as it was and makes no
\* call at all, no xf_SetWindowText among them.
C24_TitleFailureAborts ==
    [][(/\ OrderApplied
        /\ STATE_NEW \notin lastOp'.fieldFlags
        /\ "TITLE" \in lastOp'.fieldFlags
        /\ TitleFails(lastOp'.ws, lastOp'.fail))
       => /\ ret' = "FALSE"
          /\ heap'[lastOp'.win].title = heap[lastOp'.win].title
          /\ effects' = <<>>]_vars

\* An update of every field with a title that cannot be converted returned
\* FALSE: the window has its old title, the size of the order (a field
\* before the title) and not the client area of the order (a field after).
C24_Witness ==
    /\ lastOp.name = "xf_rail_window_common"
    /\ lastOp.fieldFlags = FieldBits
    /\ lastOp.fail = "none"
    /\ TitleFails(lastOp.ws, lastOp.fail)
    /\ ret = "FALSE"
    /\ effects = <<>>
    /\ lastOp.win \in DOMAIN heap
    /\ ~heap[lastOp.win].freed
    /\ heap[lastOp.win].title = Ptr(DefaultTitle)
    /\ heap[lastOp.win].windowWidth = lastOp.ws.windowWidth
    /\ heap[lastOp.win].clientAreaWidth # lastOp.ws.clientAreaWidth

(***************************************************************************)
(* Orders for a window id that the registry does not hold, under           *)
(* RegistrySpec.                                                           *)
(***************************************************************************)
\* The step is the handler name, run to its end for a window id that no
\* entry of the table had.
RanOnAbsent(name) ==
    /\ nOps' = nOps + 1
    /\ lastOp'.name = name
    /\ Absent(lastOp'.windowId)

\* C25: a window order without the new-window bit for a window id that the
\* registry does not hold returns FALSE, creates no window, makes no call
\* and leaves the registry and every window as they were; a delete order
\* for such an id returns FALSE and leaves the registry as it was.
C25_OrderForAbsentWindow ==
    [][/\ (RanOnAbsent("xf_rail_window_common")
           /\ STATE_NEW \notin lastOp'.fieldFlags)
          => /\ ret' = "FALSE"
             /\ effects' = <<>>
             /\ railWindows' = railWindows
             /\ heap' = heap
       /\ RanOnAbsent("xf_rail_window_delete")
          => /\ ret' = "FALSE"
             /\ railWindows' = railWindows
             /\ heap' = heap]_vars

\* An update of the title for window 2 was refused while the registry held
\* window 1 alone.
C25_Witness ==
    /\ lastOp.name = "xf_rail_window_common"
    /\ lastOp.windowId = 2
    /\ lastOp.fieldFlags = {"TITLE"}
    /\ ret = "FALSE"
    /\ Absent(2)
    /\ Len(Entries) = 1
    /\ heap[Entries[1]].windowId = 1
    /\ ~heap[Entries[1]].freed

\* A delete order for window 2 was refused while the registry held window 1
\* alone.
C25_WitnessDelete ==
    /\ lastOp.name = "xf_rail_window_delete"
    /\ lastOp.windowId = 2
    /\ ret = "FALSE"
    /\ Len(Entries) = 1
    /\ heap[Entries[1]].windowId = 1
    /\ ~heap[Entries[1]].freed

(***************************************************************************)
(* The objects of the registry.                                            *)
(***************************************************************************)
\* C26: every entry of the registry refers to a window that has not been
\* freed; a create order that fails for want of a title leaves no freed
\* window in the registry.
C26_NoFreedWindowRegistered ==
    \A h \in Registered : h \in DOMAIN heap /\ ~heap[h].freed

\* The number of rectangles in a buffer; none in an absent one.
Held(buffer) == IF buffer.null THEN 0 ELSE Len(buffer.data)

\* C27: for every window, numWindowRects is the number of rectangles that
\* windowRects holds and numVisibilityRects the number that visibilityRects
\* holds, also after an order that an allocation failure cut short.
C27_CountsMatchBuffers ==
    \A h \in DOMAIN heap :
        ~heap[h].freed
        => /\ heap[h].numWindowRects = Held(heap[h].windowRects)
           /\ heap[h].numVisibilityRects = Held(heap[h].visibilityRects)

(***************************************************************************)
(* GeometrySpec: one mapped window whose local geometry and resize margins *)
(* go up to the ends of the INT16 range and past them; the position is     *)
(* adjusted, and a keyboard move starts and ends.                          *)
(***************************************************************************)
MaxGeometryOps == 3

\* The window that a create order without fields leaves, after an order
\* for its margins and a report of the X server: the quadruples are
\* <<x, width, resizeMarginLeft, resizeMarginRight>> and
\* <<y, height, resizeMarginTop, resizeMarginBottom>>.
EdgeWindows ==
    LET created == WindowCommonOn(NewAppWindow(1, 50, 50, 100, 100, <<65535, 65535>>),
                                  1, {STATE_NEW}, OrderState1, "none", <<>>).w
    IN  { [created EXCEPT !.x = h[1], !.width = h[2],
                          !.resizeMarginLeft = h[3], !.resizeMarginRight = h[4],
                          !.y = v[1], !.height = v[2],
                          !.resizeMarginTop = v[3], !.resizeMarginBottom = v[4],
                          !.is_mapped = TRUE] :
            h \in {-32768, -100, 0, 32000} \X {0, 700, 32700} \X {0, 100, 40000}
                      \X {0, 100},
            v \in {-100, 50} \X {100, 32700} \X {0, 8} \X {0, 100} }

InitGeometry ==
    /\ railWindows = Ptr(<<1>>)
    /\ heap \in {<<w>> : w \in EdgeWindows}
    /\ railIconCache = RailIconCache_New(3, 12)
    /\ ret = "none"
    /\ effects = <<>>
    /\ lastOp = NoOp
    /\ crashed = FALSE
    /\ nOps = 0
    /\ repeats = 0
    /\ remote_app = FALSE

NextGeometry ==
    /\ nOps < MaxGeometryOps
    /\ \/ AdjustPosition({1})
       \/ LocalMoveStart({1}, KeyboardDirections)
       \/ EndLocalMove({1}, {<<0, 0>>})

GeometrySpec == InitGeometry /\ [][NextGeometry]_vars

\* Every value that the end of a keyboard move casts to INT16 fits, and
\* every value that xf_rail_adjust_position casts.
EndDefined(w) == \A k \in 1..Len(EndMoveCasts(w)) : FitsInt16(EndMoveCasts(w)[k])

AdjustDefined(w) == \A k \in 1..Len(AdjustCasts(w)) : FitsInt16(AdjustCasts(w)[k])

\* The step sent a geometry-sync order for the window w.
SentSyncOrder(w, order) ==
    /\ nOps' = nOps + 1
    /\ ~crashed'
    /\ lastOp'.win \in DOMAIN heap
    /\ w = heap[lastOp'.win]
    /\ Len(effects') = 1
    /\ effects'[1].op = "ClientWindowMove"
    /\ order = effects'[1].args

\* C28: for a window on which both are defined, the geometry-sync order at
\* the end of a keyboard move and the one of xf_rail_adjust_position have
\* the same left, top, right and bottom; whichever of the two is sent is
\* the order that the other would send.  The end of a keyboard move casts
\* two sums more (width + right margin, height + bottom margin), so where it
\* is defined the other is too.
C28_SameSyncOrder ==
    [][\A w \in {heap[h] : h \in DOMAIN heap} :
          /\ EndDefined(w) => AdjustDefined(w)
          /\ \A order \in {effects'[k].args : k \in 1..Len(effects')} :
                (SentSyncOrder(w, order) /\ EndDefined(w) /\ AdjustDefined(w))
                => /\ order = EndMoveOrder(w)
                   /\ order = AdjustMoveOrder(w)]_vars

\* A keyboard move ended on a window that reaches from the least INT16 to
\* the greatest: the order has the values that the adjustment would send.
C28_Witness ==
    /\ lastOp.name = "xf_rail_end_local_move"
    /\ ~crashed
    /\ Len(effects) = 1
    /\ effects[1].op = "ClientWindowMove"
    /\ heap[lastOp.win].x = -32768
    /\ heap[lastOp.win].width = 32700
    /\ heap[lastOp.win].resizeMarginRight = 0
    /\ EndDefined(heap[lastOp.win])
    /\ effects[1].args[1] = -32768
    /\ effects[1].args[3] = -68
    /\ effects[1].args[4] = heap[lastOp.win].y + heap[lastOp.win].height
                                + heap[lastOp.win].resizeMarginBottom

\* The position was adjusted for a window on which the end of a keyboard
\* move is not defined: width plus right margin is past the INT16 range,
\* x plus width plus right margin is not.
C28_WitnessAdjustOnly ==
    /\ lastOp.name = "xf_rail_adjust_position"
    /\ ~crashed
    /\ Len(effects) = 1
    /\ AdjustDefined(heap[lastOp.win])
    /\ ~EndDefined(heap[lastOp.win])
    /\ heap[lastOp.win].width + heap[lastOp.win].resizeMarginRight = 32800
    /\ effects[1].args[3] = 32700

(***************************************************************************)
(* GridSpec: an icon cache of one of five shapes and one window; icon      *)
(* orders store an icon under every pair of the grid and under the scratch *)
(* id, each icon of one pixel that tells the pair it was sent for, and     *)
(* cached-icon orders look every pair up.                                  *)
(***************************************************************************)
MaxGridOps == 3

\* The state after xf_rail_init with the shape of the settings and a create
\* order without fields.
InitGrid ==
    /\ railWindows = Ptr(<<1>>)
    /\ heap = <<WindowCommonOn(NewAppWindow(1, 50, 50, 100, 100, <<65535, 65535>>),
                               1, {STATE_NEW}, OrderState1, "none", <<>>).w>>
    /\ railIconCache \in {RailIconCache_New(shape[1], shape[2]) :
                             shape \in {<<1, 1>>, <<1, 3>>, <<2, 2>>, <<3, 1>>, <<3, 2>>}}
    /\ ret = "none"
    /\ effects = <<>>
    /\ lastOp = NoOp
    /\ crashed = FALSE
    /\ nOps = 0
    /\ repeats = 0
    /\ remote_app = FALSE

NextGrid ==
    /\ nOps < MaxGridOps
    /\ \/ IconOrder({1},
                    {IconInfo(c, e, 1, 1, 24, <<<<c, e, 255>>>>) :
                        c \in (0..(railIconCache.numCaches - 1)) \cup {ScratchCacheId},
                        e \in 0..(railIconCache.numCacheEntries - 1)},
                    {"none"})
       \/ CachedIconOrder({1},
                          (0..(railIconCache.numCaches - 1)) \cup {ScratchCacheId},
                          0..(railIconCache.numCacheEntries - 1))

GridSpec == InitGrid /\ [][NextGrid]_vars

\* The pairs in the range of the cache.
PairsInRange ==
    {p \in (0..254) \X (0..(railIconCache.numCacheEntries - 1)) :
        p[1] < railIconCache.numCaches}

\* The slot of the grid that belongs to a pair.
SlotOf(p) == railIconCache.numCacheEntries * p[1] + p[2]

\* The icon that the orders of GridSpec carry for a pair, converted.
IconOfPair(p) == [data |-> Ptr(<<1, 1, <<255, 255, p[2], p[1]>>>>), length |-> 3]

\* The step is an icon order or a cached-icon order for the window and for
\* the pair p.
OrderForPair(p) ==
    /\ nOps' = nOps + 1
    /\ ~crashed'
    /\ lastOp'.name \in {"xf_rail_window_icon", "xf_rail_window_cached_icon"}
    /\ lastOp'.win # NULL
    /\ p = <<lastOp'.ws.cacheId, lastOp'.ws.cacheEntry>>

\* C29: for every shape of the cache and every pair in range, the lookup
\* gives the slot numCacheEntries * cacheId + cacheEntry of the grid, a slot
\* among the numCaches * numCacheEntries that were allocated, not the
\* scratch entry and not the slot of another pair in range; an icon order
\* stores its icon there and leaves every other slot and the scratch entry
\* as they were, an order for the scratch id leaves the grid as it was, and
\* a cached-icon order gives the window what the slot holds.
C29_OneSlotForEachPair ==
    [][/\ \A p \in PairsInRange :
             OrderForPair(p)
             => /\ SlotOf(p) \in 0..(railIconCache.numCaches
                                        * railIconCache.numCacheEntries - 1)
                /\ SlotOf(p) \in DOMAIN railIconCache.entries
                /\ \A q \in PairsInRange \ {p} : SlotOf(q) # SlotOf(p)
                /\ Len(effects') = 1
                /\ effects'[1].args[2] = 0
                /\ effects'[1].args[3] = SlotOf(p)
                /\ railIconCache'.scratch = railIconCache.scratch
                /\ \A j \in DOMAIN railIconCache.entries \ {SlotOf(p)} :
                      railIconCache'.entries[j] = railIconCache.entries[j]
                /\ IF lastOp'.name = "xf_rail_window_icon"
                   THEN railIconCache'.entries[SlotOf(p)] = IconOfPair(p)
                   ELSE /\ railIconCache' = railIconCache
                        /\ effects'[1].text = railIconCache.entries[SlotOf(p)].data.data
       /\ \A e \in 0..(railIconCache.numCacheEntries - 1) :
             OrderForPair(<<ScratchCacheId, e>>)
             => railIconCache'.entries = railIconCache.entries
       /\ \A q \in PairsInRange :
             railIconCache'.entries[SlotOf(q)] \in {ZeroIcon, IconOfPair(q)}]_vars

\* On a cache of 3 by 2, icons were stored under (1, 0) and under the
\* scratch id, and the lookup of (2, 1) that followed gave slot 5, which
\* was still empty; slot 2 holds the icon of (1, 0).
C29_Witness ==
    /\ lastOp.name = "xf_rail_window_cached_icon"
    /\ railIconCache.numCaches = 3
    /\ railIconCache.numCacheEntries = 2
    /\ lastOp.ws.cacheId = 2
    /\ lastOp.ws.cacheEntry = 1
    /\ ret = "TRUE"
    /\ effects[1].args[3] = 5
    /\ railIconCache.entries[5] = ZeroIcon
    /\ railIconCache.entries[2] = IconOfPair(<<1, 0>>)
    /\ railIconCache.scratch # ZeroIcon

\* On a cache of 2 by 2, icons were stored under (0, 1) and (1, 0), and the
\* lookup of (0, 1) gave the window the icon stored first.
C29_WitnessLookup ==
    /\ lastOp.name = "xf_rail_window_cached_icon"
    /\ railIconCache.numCaches = 2
    /\ railIconCache.numCacheEntries = 2
    /\ lastOp.ws.cacheId = 0
    /\ lastOp.ws.cacheEntry = 1
    /\ effects[1].text = IconOfPair(<<0, 1>>).data.data
    /\ railIconCache.entries[2] = IconOfPair(<<1, 0>>)
    /\ railIconCache.entries[1] = IconOfPair(<<0, 1>>)

(***************************************************************************)
(* The name of an exec result, under ExecSpec.                             *)
(***************************************************************************)
\* The index at which the last handler read error_code_names: the code of
\* the result, on the path of line 934 that logs it.
NameIndexes ==
    IF lastOp.name = "xf_rail_server_execute_result"
       /\ lastOp.ws.execResult # RAIL_EXEC_S_OK
    THEN {lastOp.ws.execResult}
    ELSE {}

\* C30: whatever exec result the channel delivers, the index at which its
\* name is read is one of the seven of error_code_names, 0 to 6.
C30_NameIndexInTable ==
    \A i \in NameIndexes : i >= 0 /\ i < NumErrorCodeNames

====
